---- MODULE Spec2Model ----
(***************************************************************************)
(* Model of esp_idf_size.ng.memorymap: the memory-map builder get(), the   *)
(* diff engine diff() and the aggregation unify().                          *)
(*                                                                         *)
(* Conventions                                                             *)
(*  - A Python dict is an insertion-ordered sequence of entries            *)
(*    [k |-> key, v |-> value]; assigning to an existing key keeps its     *)
(*    position, assigning to a new key appends.                            *)
(*  - A Python str is a sequence of tokens (<<".", "dram0", ".", "bss">>  *)
(*    is ".dram0.bss"), so that split('.'), basename(), endswith() and    *)
(*    concatenation are computed on the text and not assumed.              *)
(*  - Addresses and sizes are small naturals.                              *)
(***************************************************************************)
EXTENDS Integers, Sequences, FiniteSets, TLC

VARIABLES
    pc,                       \* position inside get() / the driver
    lines,                    \* MapFile.lines: the lines of the linker map file
    chip,                     \* target and its chip_info yaml file
    memory_types,             \* chip catalog returned by _get_memory_types
    memory_regions,           \* map_file.memory_regions
    sections,                 \* map_file.sections
    elf,                      \* get(): the parameter and local elf; NoElf is None
    elf_arg,                  \* the Elf instance the caller passed to get(), or NoElf
    elf_file,                 \* the Elf that get_elf() loads for the project, or NoElf
    reg_i,                    \* _split_memory_regions: index of mem_reg
    mem_reg_origin,           \* _split_memory_regions: local
    mem_reg_length,           \* _split_memory_regions: local
    memory_regions_splitted,  \* _split_memory_regions: result list
    map_sections,             \* get(): map_sections_filtered / _splitted
    memory_map,               \* get(): the returned dictionary
    error,                    \* exception escaping get(), "" if none
    warnings,                 \* log.warn calls of _get_mem_type_map, in order
    memory_map_cur,           \* diff(): first argument
    memory_map_ref,           \* diff(): second argument
    memory_map_diff,          \* diff(): returned dictionary
    unify_count,              \* number of unify() calls applied to memory_map_diff
    dwarf,                    \* the Elf instance read for DWARF: symbols, cached DIEs, strings
    proj_desc,                \* get(): project_description.json, NoProjDesc is None
    returned                  \* value returned by the last call of a reader or summary function

vars == <<pc, lines, chip, memory_types, memory_regions, sections, elf, elf_arg, elf_file,
          reg_i, mem_reg_origin, mem_reg_length, memory_regions_splitted, map_sections, memory_map, error,
          warnings, memory_map_cur, memory_map_ref, memory_map_diff, unify_count,
          dwarf, proj_desc, returned>>

\* ------------------------------------------------------------------------
\* Generic helpers
\* ------------------------------------------------------------------------

RECURSIVE FoldLeft(_, _, _)
FoldLeft(Op(_, _), acc, s) ==
    IF s = <<>> THEN acc ELSE FoldLeft(Op, Op(acc, Head(s)), Tail(s))

RECURSIVE Sum(_)
Sum(s) == IF s = <<>> THEN 0 ELSE Head(s) + Sum(Tail(s))

Min(a, b) == IF a < b THEN a ELSE b

Abs(a) == IF a < 0 THEN 0 - a ELSE a

\* dict: key in d
Has(d, key) == \E i \in 1..Len(d) : d[i].k = key

IndexOf(d, key) == CHOOSE i \in 1..Len(d) : d[i].k = key

\* dict: d[key]
Get(d, key) == d[IndexOf(d, key)].v

\* dict: d[key] = value
Put(d, key, value) ==
    IF Has(d, key)
    THEN [d EXCEPT ![IndexOf(d, key)].v = value]
    ELSE Append(d, [k |-> key, v |-> value])

KeySet(d) == {d[i].k : i \in 1..Len(d)}

KeySeq(d) == [i \in 1..Len(d) |-> d[i].k]

Values(d) == [i \in 1..Len(d) |-> d[i].v]

\* the tokens of s after the last occurrence of sep (all of s if there is none)
RECURSIVE LastSplit(_, _)
LastSplit(s, sep) ==
    IF \E i \in 1..Len(s) : s[i] = sep
    THEN LastSplit(SubSeq(s, (CHOOSE i \in 1..Len(s) : s[i] = sep /\ \A j \in 1..(i-1) : s[j] # sep) + 1, Len(s)), sep)
    ELSE s

\* str.endswith(suffix)
EndsWith(s, suffix) ==
    /\ Len(s) >= Len(suffix)
    /\ SubSeq(s, Len(s) - Len(suffix) + 1, Len(s)) = suffix

\* substring test: sub in s
Contains(s, sub) ==
    \E i \in 1..(Len(s) - Len(sub) + 1) : SubSeq(s, i, i + Len(sub) - 1) = sub

\* os.path.basename
basename(path) == LastSplit(path, "/")

\* sorted(s, key=Key): stable insertion sort
RECURSIVE SortedInsert(_, _, _)
SortedInsert(Key(_), sorted, x) ==
    IF sorted = <<>> THEN <<x>>
    ELSE IF Key(sorted[Len(sorted)]) <= Key(x) THEN Append(sorted, x)
    ELSE Append(SortedInsert(Key, SubSeq(sorted, 1, Len(sorted) - 1), x), sorted[Len(sorted)])

RECURSIVE SortedBy(_, _)
SortedBy(Key(_), s) ==
    IF s = <<>> THEN <<>>
    ELSE SortedInsert(Key, SortedBy(Key, SubSeq(s, 1, Len(s) - 1)), s[Len(s)])

\* ------------------------------------------------------------------------
\* Names used by the code
\* ------------------------------------------------------------------------

\* elf is None: no Elf instance
NoElf == [present |-> FALSE, shdrs |-> <<>>, symbols |-> <<>>]

\* None among Python values of several types
PyNone == [t |-> "none"]

\* The Elf object: symbols is the cached list Elf.symbols (cu_name <<>> is the
\* class default None), dies the cached DIEs of all CUs in the order of Elf.CUs,
\* keyed by offset (cu is the _die_offset of the CU of the DIE), debug_str and
\* debug_line_str the sections of strings; present is FALSE for None.
NoDwarf ==
    [present |-> FALSE, symbols |-> <<>>, dies |-> <<>>, debug_str |-> [present |-> FALSE, data |-> <<>>],
     debug_line_str |-> [present |-> FALSE, data |-> <<>>]]

\* proj_desc is None
NoProjDesc == [present |-> FALSE, build_dir |-> <<>>, build_component_info |-> <<>>]

DEFAULT_REGION == <<"*default*">>

STT_FUNC == "FUNC"

STT_OBJECT == "OBJECT"

SHT_PROGBITS == "PROGBITS"

SHT_NOBITS == "NOBITS"

\* ------------------------------------------------------------------------
\* Stage 1: memory regions to memory types
\* ------------------------------------------------------------------------

_filter_memory_regions(regions) ==
    SelectSeq(regions, LAMBDA mem_reg : mem_reg.name # DEFAULT_REGION)

InRange(addr, start, length) == start <= addr /\ addr < start + length

\* variant of TypeFound that looks at the primary address range only
TypeFoundPrimaryOnly(info, origin) == InRange(origin, info.primary_address, info.length)

\* lines 834-843: does the memory type cover mem_reg_origin
TypeFound(info, origin) ==
    \/ InRange(origin, info.primary_address, info.length)
    \/ /\ info.secondary_address # 0
       /\ InRange(origin, info.secondary_address, info.length)

\* mem_type_addr after lines 834-841
TypeAddr(info, origin) ==
    IF InRange(origin, info.primary_address, info.length)
    THEN info.primary_address
    ELSE info.secondary_address

SplittedRegion(mem_reg, origin, length, type) ==
    [name |-> mem_reg.name, origin |-> origin, length |-> length,
     attrs |-> mem_reg.attrs, type |-> type]

\* One pass of the `while True` body of _split_memory_regions for mem_reg with
\* the locals (origin, length). brk tells whether the loop is left.
SplitRegionPass(types, splitted, mem_reg, origin, length) ==
    LET found == {i \in 1..Len(types) : TypeFound(types[i].v, origin)} IN
    IF found # {}
    THEN LET info == types[CHOOSE i \in found : \A j \in found : i <= j].v
             used_length == Min(length, info.length - (origin - TypeAddr(info, origin)))
         IN  [splitted |-> Append(splitted, SplittedRegion(mem_reg, origin, used_length, info)),
              origin   |-> origin + used_length,
              length   |-> length - used_length,
              brk      |-> (length - used_length = 0)]
    ELSE LET same_end == {j \in 1..Len(splitted) :
                            origin + length = splitted[j].origin + splitted[j].length}
         IN  IF same_end # {}
             THEN LET r == splitted[CHOOSE j \in same_end : \A h \in same_end : j <= h]
                  IN  [splitted |-> Append(splitted, SplittedRegion(mem_reg, origin, length, r.type)),
                       origin   |-> origin,
                       length   |-> length,
                       brk      |-> (length = 0)]
             ELSE [splitted |-> splitted, origin |-> origin, length |-> length, brk |-> TRUE]

\* ------------------------------------------------------------------------
\* Stage 2/3: ELF section headers, output section filter, image size
\* ------------------------------------------------------------------------

\* dict name -> shdr of the allocated, nonempty ELF sections; none without ELF
_get_elf_sections_headers(e) ==
    IF ~e.present THEN [none |-> TRUE, hdrs |-> <<>>]
    ELSE [none |-> FALSE,
          hdrs |-> FoldLeft(LAMBDA hdrs, shdr :
                                IF shdr.sh_size = 0 \/ ~shdr.alloc THEN hdrs
                                ELSE Put(hdrs, shdr.name, shdr),
                            <<>>, e.shdrs)]

\* `if elf_sections:` is false for None and for the empty dict
Truthy(elf_sections) == ~elf_sections.none /\ elf_sections.hdrs # <<>>

NameKept(name) ==
    \/ EndsWith(name, <<".", "text">>)
    \/ EndsWith(name, <<".", "data">>)
    \/ EndsWith(name, <<".", "bss">>)
    \/ EndsWith(name, <<".", "rodata">>)
    \/ EndsWith(name, <<"noinit">>)
    \/ EndsWith(name, <<".", "vectors">>)
    \/ Contains(name, <<".", "flash">>)
    \/ Contains(name, <<".", "eh_frame">>)

SectionKept(section, elf_sections) ==
    /\ section.size # 0
    /\ ~EndsWith(section.name, <<"dummy">>)
    /\ ~EndsWith(section.name, <<"reserved_for_iram">>)
    /\ ~EndsWith(section.name, <<"noload">>)
    /\ IF Truthy(elf_sections)
       THEN Has(elf_sections.hdrs, section.name)
       ELSE NameKept(section.name)

\* variant of _filter_map_sections that also removes the input sections of size 1
_filter_map_sections_sized(secs, elf_sections) ==
    LET kept == SelectSeq(secs, LAMBDA section : SectionKept(section, elf_sections))
    IN  [i \in 1..Len(kept) |->
            [kept[i] EXCEPT !.input_sections = SelectSeq(@, LAMBDA s : s.size > 1)]]

_filter_map_sections(secs, elf_sections) ==
    LET kept == SelectSeq(secs, LAMBDA section : SectionKept(section, elf_sections))
    IN  [i \in 1..Len(kept) |->
            [kept[i] EXCEPT !.input_sections = SelectSeq(@, LAMBDA s : s.size # 0)]]

_get_image_size(elf_sections, secs) ==
    IF ~Truthy(elf_sections)
    THEN Sum([i \in 1..Len(secs) |->
                IF EndsWith(secs[i].name, <<".", "bss">>) \/ EndsWith(secs[i].name, <<"noinit">>)
                THEN 0 ELSE secs[i].size])
    ELSE Sum([i \in 1..Len(elf_sections.hdrs) |->
                IF elf_sections.hdrs[i].v.sh_type # SHT_PROGBITS THEN 0
                ELSE elf_sections.hdrs[i].v.sh_size])

\* ------------------------------------------------------------------------
\* Stage 4: symbols of input sections
\* ------------------------------------------------------------------------

\* variant of IsecAsSymbol whose symbol spans the fill too
IsecAsSymbolWithFill(isec) ==
    [name |-> isec.name, address |-> isec.address, size |-> isec.size + isec.fill]

\* the input section taken as its own symbol (lines 1053-1057, 1098-1102)
IsecAsSymbol(isec) ==
    [name |-> isec.name, address |-> isec.address, size |-> isec.size]

\* variant of ElfSymbolEntry that keeps the raw name of a function
ElfSymbolEntryRaw(symbol) ==
    [name |-> symbol.name, address |-> symbol.st_value, size |-> symbol.st_size]

\* lines 1118-1126: the entry appended for an ELF symbol
ElfSymbolEntry(symbol) ==
    [name    |-> IF symbol.type = STT_FUNC THEN symbol.name \o <<"()">> ELSE symbol.name,
     address |-> symbol.st_value,
     size    |-> symbol.st_size]

\* lines 1062-1063
FilteredSymbols(e) ==
    SelectSeq(SortedBy(LAMBDA s : s.st_value, e.symbols),
              LAMBDA s : s.type \in {STT_FUNC, STT_OBJECT} /\ s.st_size # 0)

\* positions <<output section index, input section index>> of all input sections,
\* in the order of lines 1068-1071
IsecPositions(osections) ==
    FoldLeft(LAMBDA acc, o : acc \o [j \in 1..Len(osections[o].input_sections) |-> <<o, j>>],
             <<>>, [o \in 1..Len(osections) |-> o])

IsecAt(osections, pos) == osections[pos[1]].input_sections[pos[2]]

SetSymbols(osections, pos, syms) ==
    [osections EXCEPT ![pos[1]].input_sections[pos[2]].symbols = syms]

\* The `while` of lines 1081-1105 for one symbol. st = [osecs, isec, rest, err]:
\* isec is the position of the current input section, rest the positions not yet popped.
RECURSIVE AdvanceIsec(_, _)
AdvanceIsec(st, symbol) ==
    LET cur == IsecAt(st.osecs, st.isec) IN
    IF symbol.st_value >= cur.address + cur.size
    THEN IF st.rest = <<>>
         THEN [st EXCEPT !.err = "MemMapException"]
         ELSE AdvanceIsec(
                [st EXCEPT !.osecs = IF cur.symbols = <<>>
                                     THEN SetSymbols(@, st.isec, <<IsecAsSymbol(cur)>>)
                                     ELSE @,
                           !.isec = Head(st.rest),
                           !.rest = Tail(st.rest)],
                symbol)
    ELSE st

\* variant of AddElfSymbol without the check that the symbol fits
AddElfSymbolUnchecked(st, symbol) ==
    IF st.err # "" THEN st
    ELSE LET adv == AdvanceIsec(st, symbol)
             cur == IsecAt(adv.osecs, adv.isec)
         IN  IF adv.err # "" THEN adv
             ELSE IF symbol.st_value < cur.address
                  THEN adv
             ELSE [adv EXCEPT !.osecs = SetSymbols(@, adv.isec,
                                            Append(cur.symbols, ElfSymbolEntry(symbol)))]

\* the body of the `for symbol in symbols` loop, lines 1077-1126
AddElfSymbol(st, symbol) ==
    IF st.err # "" THEN st
    ELSE LET adv == AdvanceIsec(st, symbol)
             cur == IsecAt(adv.osecs, adv.isec)
         IN  IF adv.err # "" THEN adv
             ELSE IF symbol.st_value + symbol.st_size > cur.address + cur.size
                  THEN [adv EXCEPT !.err = "MemMapException"]
             ELSE IF symbol.st_value < cur.address
                  THEN adv
             ELSE [adv EXCEPT !.osecs = SetSymbols(@, adv.isec,
                                            Append(cur.symbols, ElfSymbolEntry(symbol)))]

\* every input section of every output section replaced by F(input section)
MapIsecs(F(_), osections) ==
    [o \in 1..Len(osections) |->
        [osections[o] EXCEPT !.input_sections =
            [j \in 1..Len(osections[o].input_sections) |-> F(osections[o].input_sections[j])]]]

\* returns [osecs |-> the sections with symbols, err |-> the exception raised or ""]
_add_symbols_to_sections(e, osections) ==
    IF ~e.present
    THEN [osecs |-> MapIsecs(LAMBDA isec : [isec EXCEPT !.symbols = <<IsecAsSymbol(isec)>>],
                             osections),
          err |-> ""]
    ELSE LET cleared == MapIsecs(LAMBDA isec : [isec EXCEPT !.symbols = <<>>], osections)
             isections == SortedBy(LAMBDA pos : IsecAt(cleared, pos).address,
                                   IsecPositions(cleared))
         IN  IF isections = <<>>
             THEN [osecs |-> cleared, err |-> "IndexError"]    \* isections.pop(0), line 1076
             ELSE LET st == FoldLeft(AddElfSymbol,
                                     [osecs |-> cleared, isec |-> Head(isections),
                                      rest |-> Tail(isections), err |-> ""],
                                     FilteredSymbols(e))
                  IN  [osecs |-> st.osecs, err |-> st.err]

\* ------------------------------------------------------------------------
\* Stage 5: split output sections at the ends of memory regions
\* ------------------------------------------------------------------------

\* lines 981-999: the symbols of an input section split at split_addr;
\* acc = [s1, s2], the symbols of input_section1 and input_section2
SplitSymbol(split_addr, acc, symbol) ==
    IF symbol.address + symbol.size <= split_addr
    THEN [acc EXCEPT !.s1 = Append(@, symbol)]
    ELSE IF symbol.address > split_addr
    THEN [acc EXCEPT !.s2 = Append(@, symbol)]
    ELSE [s1 |-> Append(acc.s1, [symbol EXCEPT !.size = split_addr - symbol.address]),
          s2 |-> Append(acc.s2, [symbol EXCEPT !.address = split_addr,
                                               !.size = symbol.size - (split_addr - symbol.address)])]

\* variant of SplitInputSection whose second piece keeps the whole fill
SplitInputSectionKeepFill(split_addr, acc, input_section) ==
    IF input_section.address + input_section.size + input_section.fill <= split_addr
    THEN [acc EXCEPT !.i1 = Append(@, input_section)]
    ELSE IF input_section.address > split_addr
    THEN [acc EXCEPT !.i2 = Append(@, input_section)]
    ELSE LET size1 == Min(split_addr - input_section.address, input_section.size)
             fill1 == split_addr - (input_section.address + size1)
             syms  == FoldLeft(LAMBDA a, symbol : SplitSymbol(split_addr, a, symbol),
                               [s1 |-> <<>>, s2 |-> <<>>], input_section.symbols)
         IN  [i1 |-> Append(acc.i1, [input_section EXCEPT !.size = size1,
                                                          !.fill = fill1,
                                                          !.symbols = syms.s1]),
              i2 |-> Append(acc.i2, [input_section EXCEPT !.address = split_addr,
                                                          !.size = input_section.size - size1,
                                                          !.symbols = syms.s2])]

\* lines 959-1002: one input section of a section split at split_addr;
\* acc = [i1, i2], the input sections of section1 and section2
SplitInputSection(split_addr, acc, input_section) ==
    IF input_section.address + input_section.size + input_section.fill <= split_addr
    THEN [acc EXCEPT !.i1 = Append(@, input_section)]
    ELSE IF input_section.address > split_addr
    THEN [acc EXCEPT !.i2 = Append(@, input_section)]
    ELSE LET size1 == Min(split_addr - input_section.address, input_section.size)
             fill1 == split_addr - (input_section.address + size1)
             syms  == FoldLeft(LAMBDA a, symbol : SplitSymbol(split_addr, a, symbol),
                               [s1 |-> <<>>, s2 |-> <<>>], input_section.symbols)
         IN  [i1 |-> Append(acc.i1, [input_section EXCEPT !.size = size1,
                                                          !.fill = fill1,
                                                          !.symbols = syms.s1]),
              i2 |-> Append(acc.i2, [input_section EXCEPT !.address = split_addr,
                                                          !.size = input_section.size - size1,
                                                          !.fill = input_section.fill - fill1,
                                                          !.symbols = syms.s2])]

\* the body of `while sections`, lines 934-1013: work is the list still to do
\* (popped from its end), done is sections_splitted; id 0 marks a new dict
RECURSIVE SplitWork(_, _, _)
SplitWork(work, done, regions) ==
    IF work = <<>> THEN done
    ELSE LET section == work[Len(work)]
             rest == SubSeq(work, 1, Len(work) - 1)
             inside == {r \in 1..Len(regions) :
                          InRange(section.address, regions[r].origin, regions[r].length)}
         IN  IF inside = {}
             THEN SplitWork(rest, Append(done, section), regions)
             ELSE LET region == regions[CHOOSE r \in inside : \A q \in inside : r <= q]
                      split_addr == region.origin + region.length
                      split_size == split_addr - section.address
                  IN  IF section.address + section.size <= split_addr
                      THEN SplitWork(rest, Append(done, section), regions)
                      ELSE LET parts == FoldLeft(LAMBDA a, isec : SplitInputSection(split_addr, a, isec),
                                                 [i1 |-> <<>>, i2 |-> <<>>], section.input_sections)
                               section1 == [id |-> 0, name |-> section.name, address |-> section.address,
                                            size |-> split_size, input_sections |-> parts.i1]
                               section2 == [id |-> 0, name |-> section.name, address |-> split_addr,
                                            size |-> section.size - split_size,
                                            input_sections |-> parts.i2]
                           IN  SplitWork(Append(rest, section2), Append(done, section1), regions)

_split_map_sections(secs, regions) == SplitWork(secs, <<>>, regions)

\* ------------------------------------------------------------------------
\* Stage 6: archives, object files and symbols of a section
\* ------------------------------------------------------------------------

\* section_name.split('.')[-1] prefixed with '.'
_abbrev(section_name) == <<".">> \o LastSplit(section_name, ".")

\* lines 1202-1207
SymbolEntry(symbol) ==
    [abbrev_name |-> symbol.name, size |-> symbol.size, size_diff |-> 0]

\* variant of IsecContribution that counts the fill too
IsecContributionWithFill(input_section) == input_section.size + input_section.fill

\* lines 1186 and 1200: what an input section adds to its archive and object file
IsecContribution(input_section) == input_section.size

\* the body of `for input_section in section['input_sections']`, lines 1173-1207
AddInputSection(archives, input_section) ==
    LET archive_name == input_section.archive
        archive0 == IF Has(archives, archive_name) THEN Get(archives, archive_name)
                    ELSE [abbrev_name |-> basename(archive_name), size |-> 0,
                          size_diff |-> 0, object_files |-> <<>>]
        object_file_name == input_section.object_file
        object0 == IF Has(archive0.object_files, object_file_name)
                   THEN Get(archive0.object_files, object_file_name)
                   ELSE [abbrev_name |-> basename(object_file_name), size |-> 0,
                         size_diff |-> 0, symbols |-> <<>>]
        object1 == [object0 EXCEPT
                      !.size = object0.size + IsecContribution(input_section),
                      !.symbols = FoldLeft(LAMBDA d, symbol : Put(d, symbol.name, SymbolEntry(symbol)),
                                           object0.symbols, input_section.symbols)]
        archive1 == [archive0 EXCEPT
                      !.size = archive0.size + IsecContribution(input_section),
                      !.object_files = Put(archive0.object_files, object_file_name, object1)]
    IN  Put(archives, archive_name, archive1)

_add_archives_to_sections(secs) ==
    [i \in 1..Len(secs) |->
        [id |-> secs[i].id, name |-> secs[i].name, address |-> secs[i].address,
         size |-> secs[i].size, input_sections |-> secs[i].input_sections,
         abbrev_name |-> _abbrev(secs[i].name),
         archives |-> FoldLeft(AddInputSection, <<>>, secs[i].input_sections)]]

\* ------------------------------------------------------------------------
\* Chip catalog
\* ------------------------------------------------------------------------

\* lines 1376-1385: a catalog entry without 'secondary_address' gets 0 and one
\* without 'name' gets its key; yaml entries mark a missing field by NoField
NoField == ""

\* variant of _get_memory_types that names every entry after its key
_get_memory_types_keyed(yaml) ==
    [i \in 1..Len(yaml) |->
        [k |-> yaml[i].k,
         v |-> [name              |-> yaml[i].k,
                primary_address   |-> yaml[i].v.primary_address,
                length            |-> yaml[i].v.length,
                secondary_address |-> yaml[i].v.secondary_address]]]

_get_memory_types(yaml) ==
    [i \in 1..Len(yaml) |->
        [k |-> yaml[i].k,
         v |-> [name              |-> IF yaml[i].v.name = NoField THEN yaml[i].k
                                      ELSE yaml[i].v.name,
                primary_address   |-> yaml[i].v.primary_address,
                length            |-> yaml[i].v.length,
                secondary_address |-> yaml[i].v.secondary_address]]]

\* ------------------------------------------------------------------------
\* Stage 7: the memory-type level of the tree
\* ------------------------------------------------------------------------

\* line 1402: the key of a memory type in the tree
MemTypeAlias(mem_type_name, mem_type_info) == mem_type_info.name

\* lines 1401-1410
EmptyMemTypes(types) ==
    FoldLeft(LAMBDA m, t : Put(m, MemTypeAlias(t.k, t.v),
                               [size |-> 0, size_diff |-> 0, used |-> 0, used_diff |-> 0,
                                sections |-> <<>>]),
             <<>>, types)

\* variant of IsRegionAlias that finds no alias
IsRegionAliasNever(mem_reg, assigned) == FALSE

\* lines 1424-1429: mem_reg is an alias of a region already assigned to its type
IsRegionAlias(mem_reg, assigned) ==
    LET info == mem_reg.type
        mem_type_offset == IF info.secondary_address # 0
                           THEN Abs(info.primary_address - info.secondary_address)
                           ELSE 0
    IN  \E i \in 1..Len(assigned) :
            /\ mem_type_offset = Abs(assigned[i].origin - mem_reg.origin)
            /\ assigned[i].length = mem_reg.length

\* the body of `for mem_reg in memory_regions`, lines 1413-1443;
\* st = [map, regs, err]: memory_map, memory_types_regions, the exception raised
AddRegionSize(st, mem_reg) ==
    LET mem_type_alias == mem_reg.type.name IN
    IF st.err # "" THEN st
    ELSE IF ~Has(st.regs, mem_type_alias) THEN [st EXCEPT !.err = "KeyError"]
    ELSE LET assigned == Get(st.regs, mem_type_alias)
             entry == Get(st.map, mem_type_alias)
             regs1 == Put(st.regs, mem_type_alias, Append(assigned, mem_reg))
         IN  IF assigned = <<>>
             THEN [st EXCEPT !.map = Put(@, mem_type_alias, [entry EXCEPT !.size = mem_reg.length]),
                             !.regs = regs1]
             ELSE IF IsRegionAlias(mem_reg, assigned)
             THEN [st EXCEPT !.regs = regs1]
             ELSE [st EXCEPT !.map = Put(@, mem_type_alias,
                                         [entry EXCEPT !.size = @ + mem_reg.length]),
                             !.regs = regs1]

\* lines 1460-1465 and 1488-1493: the section entry of the tree
SectionEntry(abbrev_name, map_section) ==
    [abbrev_name |-> abbrev_name, size |-> map_section.size, size_diff |-> 0,
     archives |-> map_section.archives]

\* lines 1459-1460 and 1487-1488: account the section to the memory type
PlaceSection(map, mem_type_alias, section_name, abbrev_name, map_section) ==
    LET entry == Get(map, mem_type_alias) IN
    Put(map, mem_type_alias,
        [entry EXCEPT !.used = @ + map_section.size,
                      !.sections = Put(@, section_name, SectionEntry(abbrev_name, map_section))])

OVERFLOW == <<"_overflow">>

\* lines 1455, 1481 and 1498: a log.warn call about an output section
Warn(st, kind, map_section) ==
    [st EXCEPT !.warn = Append(@, [kind |-> kind, section |-> map_section.name,
                                   address |-> map_section.address])]

\* lines 1452-1466: the section starts inside mem_reg
PlaceInRegion(st, mem_reg, map_section) ==
    LET st1 == IF map_section.address + map_section.size > mem_reg.origin + mem_reg.length
               THEN Warn(st, "exceeds memory region", map_section)
               ELSE st
    IN  IF ~Has(st1.map, mem_reg.type.name) THEN [st1 EXCEPT !.err = "KeyError"]
        ELSE [st1 EXCEPT !.map = PlaceSection(@, mem_reg.type.name, map_section.name,
                                              map_section.abbrev_name, map_section)]

\* lines 1468-1494: the section is accounted to the region before mem_reg
PlaceOverflow(st, prev_mem_reg, map_section) ==
    LET mem_type_alias == prev_mem_reg.type.name
        st1 == Warn(st, "overflow detected", map_section)
        map_section_name == map_section.name \o OVERFLOW
    IN  IF ~Has(st1.map, mem_type_alias) THEN [st1 EXCEPT !.err = "KeyError"]
        ELSE [st1 EXCEPT !.map = PlaceSection(@, mem_type_alias, map_section_name,
                                              _abbrev(map_section_name), map_section)]

\* the `for mem_reg in memory_regions_sorted` loop for one section, lines 1448-1500;
\* i is the index of mem_reg, prev the index of prev_mem_reg (0 for None)
RECURSIVE AssignSection(_, _, _, _, _)
AssignSection(st, regions_sorted, map_section, i, prev) ==
    IF i > Len(regions_sorted) THEN Warn(st, "cannot assign", map_section)
    ELSE LET mem_reg == regions_sorted[i] IN
         IF InRange(map_section.address, mem_reg.origin, mem_reg.length)
         THEN PlaceInRegion(st, mem_reg, map_section)
         ELSE IF mem_reg.origin > map_section.address /\ prev # 0
         THEN PlaceOverflow(st, regions_sorted[prev], map_section)
         ELSE AssignSection(st, regions_sorted, map_section, i + 1, i)

\* returns [map |-> memory_map, err |-> exception or "", warn |-> warnings logged]
_get_mem_type_map(types, regions, secs) ==
    LET sized == FoldLeft(AddRegionSize,
                          [map  |-> EmptyMemTypes(types),
                           regs |-> FoldLeft(LAMBDA m, t : Put(m, MemTypeAlias(t.k, t.v), <<>>),
                                             <<>>, types),
                           err  |-> "",
                           warn |-> <<>>],
                          regions)
        memory_regions_sorted == SortedBy(LAMBDA r : r.origin, regions)
        placed == FoldLeft(LAMBDA st, map_section :
                               IF st.err # "" THEN st
                               ELSE AssignSection(st, memory_regions_sorted, map_section, 1, 0),
                           sized, secs)
    IN  [map |-> placed.map, err |-> placed.err, warn |-> placed.warn]

\* ------------------------------------------------------------------------
\* get(): inputs
\* ------------------------------------------------------------------------

MaxSize == 2

MaxFill == 2

Yaml(key, name, primary_address, length, secondary_address) ==
    [k |-> key, v |-> [name |-> name, primary_address |-> primary_address,
                       length |-> length, secondary_address |-> secondary_address]]

\* chip catalogs: two plain memory types; a type with a secondary address range;
\* two catalog entries that carry the same 'name'; a type whose secondary address
\* range is the primary range of the entry before it
ChipSeq ==
    << [target |-> "chipA", yaml |-> << Yaml("IRAM", NoField, 2, 4, 0),
                                        Yaml("DRAM", NoField, 6, 4, 0) >>],
       [target |-> "chipB", yaml |-> << Yaml("IRAM", NoField, 2, 4, 0),
                                        Yaml("DIRAM", NoField, 8, 2, 6) >>],
       [target |-> "chipC", yaml |-> << Yaml("SRAM0", "DRAM", 2, 4, 0),
                                        Yaml("SRAM1", "DRAM", 6, 4, 0) >>],
       [target |-> "chipD", yaml |-> << Yaml("IRAM", NoField, 2, 4, 0),
                                        Yaml("DRAM", NoField, 6, 4, 2) >>] >>

Chips == {ChipSeq[i] : i \in 1..Len(ChipSeq)}

RegionNames == << <<"iram0_0_seg">>, <<"dram0_0_seg">>, <<"extra_seg">> >>

RegionOrigins == {2, 6, 8}

RegionLengths == {2, 4}

Region(name, origin, length) ==
    [name |-> name, origin |-> origin, length |-> length, attrs |-> "xrw"]

RegionCounts == 1..2

\* the Memory Configuration of a map file: regions with distinct origins,
\* followed by the linker's *default* region
RegionLists ==
    UNION { { [i \in 1..(n + 1) |->
                 IF i = n + 1 THEN Region(DEFAULT_REGION, 0, 16)
                 ELSE Region(RegionNames[i], o[i], l[i])] :
              o \in {f \in [1..n -> RegionOrigins] : \A i, j \in 1..n : i # j => f[i] # f[j]},
              l \in [1..n -> RegionLengths] } :
            n \in RegionCounts }

TEXT_NAME == <<".", "iram0", ".", "text">>

LIBFOO == <<"esp-idf", "/", "foo", "/", "libfoo.a">>

LIBFOO_OTHER == <<"other", "/", "libfoo.a">>

\* the kinds of input sections: name, archive, object file
MainKind ==
    [name |-> <<".", "text", ".", "main">>, archive |-> LIBFOO, object_file |-> <<"foo.c.obj">>]

IsecKinds ==
    { MainKind,
      [name |-> <<".", "text", ".", "init">>, archive |-> LIBFOO, object_file |-> <<"foo.c.obj">>],
      [name |-> <<".", "text", ".", "main">>, archive |-> LIBFOO_OTHER,
       object_file |-> <<"foo.c.obj">>] }

SecAddrs == {5, 7}

\* An output section as the map-file parser records it: its input sections are
\* contiguous and its size is the sum of their sizes and fills. id is the identity
\* of the dict object (0 for a dict created later by _split_map_sections).
RECURSIVE Layout(_, _)
Layout(address, specs) ==
    IF specs = <<>> THEN <<>>
    ELSE << [name |-> Head(specs).kind.name, address |-> address, size |-> Head(specs).size,
             archive |-> Head(specs).kind.archive, object_file |-> Head(specs).kind.object_file,
             fill |-> Head(specs).fill, symbols |-> <<>>] >>
         \o Layout(address + Head(specs).size + Head(specs).fill, Tail(specs))

OutputSection(id, name, address, specs) ==
    [id |-> id, name |-> name, address |-> address,
     size |-> Sum([i \in 1..Len(specs) |-> specs[i].size + specs[i].fill]),
     input_sections |-> Layout(address, specs)]

IsecSpecs == [kind : IsecKinds, size : 1..MaxSize, fill : 0..MaxFill]

IsecCounts == 1..2

\* one output section whose first input section is of MainKind
SectionLists ==
    UNION { { << OutputSection(1, TEXT_NAME, a, specs) >> :
              a \in SecAddrs, specs \in {f \in [1..n -> IsecSpecs] : f[1].kind = MainKind} } :
            n \in IsecCounts }

\* The ELF of the same link: one allocated PROGBITS header per output section and,
\* per input section, either one FUNC symbol covering it or one OBJECT symbol of
\* size 1 at its start.
ElfOf(secs, whole) ==
    [present |-> TRUE,
     shdrs   |-> [i \in 1..Len(secs) |->
                    [name |-> secs[i].name, sh_type |-> SHT_PROGBITS, alloc |-> TRUE,
                     sh_size |-> secs[i].size]],
     symbols |-> FoldLeft(LAMBDA acc, sec : acc \o
                    [j \in 1..Len(sec.input_sections) |->
                        [name     |-> LastSplit(sec.input_sections[j].name, "."),
                         st_value |-> sec.input_sections[j].address,
                         st_size  |-> IF whole THEN sec.input_sections[j].size ELSE 1,
                         type     |-> IF whole THEN STT_FUNC ELSE STT_OBJECT]],
                    <<>>, secs)]

Elfs(secs) == {NoElf, ElfOf(secs, TRUE), ElfOf(secs, FALSE)}

\* lines 167-176 and 182
NewMemoryMap(project_path) ==
    [version |-> "1.0", target |-> "", target_diff |-> "", image_size |-> 0,
     image_size_diff |-> 0, project_path |-> project_path, project_path_diff |-> "",
     memory_types |-> <<>>]

\* ------------------------------------------------------------------------
\* get(): the steps of lines 232-271
\* ------------------------------------------------------------------------

MaxSplitted == 6

NoMap == NewMemoryMap("")

\* the dicts of map_file.sections as the working list left them: get() changes
\* the dicts of the parsed map in place
WriteBack(secs, working) ==
    [i \in 1..Len(secs) |->
        IF \E j \in 1..Len(working) : working[j].id = secs[i].id
        THEN working[CHOOSE j \in 1..Len(working) : working[j].id = secs[i].id]
        ELSE secs[i]]

InitGet ==
    /\ pc = "get"
    /\ lines = <<>>
    /\ chip \in Chips
    /\ memory_regions \in RegionLists
    /\ sections \in SectionLists
    /\ elf \in Elfs(sections)
    /\ elf_arg = NoElf
    /\ elf_file = elf
    /\ memory_types = <<>>
    /\ reg_i = 0
    /\ mem_reg_origin = 0
    /\ mem_reg_length = 0
    /\ memory_regions_splitted = <<>>
    /\ map_sections = <<>>
    /\ memory_map = NewMemoryMap("build/app.map")
    /\ error = ""
    /\ warnings = <<>>
    /\ memory_map_cur = NoMap
    /\ memory_map_ref = NoMap
    /\ memory_map_diff = NoMap
    /\ unify_count = 0
    /\ dwarf = NoDwarf
    /\ proj_desc = NoProjDesc
    /\ returned = PyNone

DiffUnchanged == UNCHANGED <<memory_map_cur, memory_map_ref, memory_map_diff, unify_count>>

InputsUnchanged ==
    UNCHANGED <<lines, chip, memory_regions, elf, elf_arg, elf_file, dwarf, proj_desc, returned>>

\* the locals of _split_memory_regions at the start of `for mem_reg` number i
EnterRegion(regions, i) ==
    /\ reg_i' = i
    /\ mem_reg_origin' = IF i <= Len(regions) THEN regions[i].origin ELSE 0
    /\ mem_reg_length' = IF i <= Len(regions) THEN regions[i].length ELSE 0

\* lines 229-242: target, memory types, start of _split_memory_regions
GetMemoryTypes ==
    /\ pc = "get"
    /\ memory_map' = [memory_map EXCEPT !.target = chip.target]
    /\ memory_types' = _get_memory_types(chip.yaml)
    /\ memory_regions_splitted' = <<>>
    /\ EnterRegion(_filter_memory_regions(memory_regions), 1)
    /\ pc' = "split_regions"
    /\ UNCHANGED <<sections, map_sections, error>>
    /\ InputsUnchanged /\ DiffUnchanged /\ UNCHANGED warnings

\* one pass of the `while True` loop of _split_memory_regions
SplitRegionsPass ==
    /\ pc = "split_regions"
    /\ reg_i <= Len(_filter_memory_regions(memory_regions))
    /\ Len(memory_regions_splitted) < MaxSplitted
    /\ LET regions == _filter_memory_regions(memory_regions)
           r == SplitRegionPass(memory_types, memory_regions_splitted, regions[reg_i],
                                mem_reg_origin, mem_reg_length)
       IN  /\ memory_regions_splitted' = r.splitted
           /\ IF r.brk
              THEN EnterRegion(regions, reg_i + 1)
              ELSE /\ reg_i' = reg_i
                   /\ mem_reg_origin' = r.origin
                   /\ mem_reg_length' = r.length
    /\ UNCHANGED <<pc, memory_types, sections, map_sections, memory_map, error>>
    /\ InputsUnchanged /\ DiffUnchanged /\ UNCHANGED warnings

\* lines 235 and 246-249: _filter_map_sections and _get_image_size
FilterMapSections ==
    /\ pc = "split_regions"
    /\ reg_i > Len(_filter_memory_regions(memory_regions))
    /\ LET hdrs == _get_elf_sections_headers(elf)
           filtered == _filter_map_sections(sections, hdrs)
       IN  /\ map_sections' = filtered
           /\ sections' = WriteBack(sections, filtered)
           /\ memory_map' = [memory_map EXCEPT !.image_size = _get_image_size(hdrs, filtered)]
    /\ pc' = "symbols"
    /\ UNCHANGED <<memory_types, reg_i, mem_reg_origin, mem_reg_length,
                   memory_regions_splitted, error>>
    /\ InputsUnchanged /\ DiffUnchanged /\ UNCHANGED warnings

\* lines 251-253: _add_symbols_to_sections (load_symbols is True)
AddSymbolsToSections ==
    /\ pc = "symbols"
    /\ LET r == _add_symbols_to_sections(elf, map_sections)
       IN  /\ map_sections' = r.osecs
           /\ sections' = WriteBack(sections, r.osecs)
           /\ error' = r.err
           /\ pc' = IF r.err = "" THEN "split_sections" ELSE "raised"
    /\ UNCHANGED <<memory_types, reg_i, mem_reg_origin, mem_reg_length,
                   memory_regions_splitted, memory_map>>
    /\ InputsUnchanged /\ DiffUnchanged /\ UNCHANGED warnings

\* line 261: _split_map_sections
SplitMapSections ==
    /\ pc = "split_sections"
    /\ map_sections' = _split_map_sections(map_sections, memory_regions_splitted)
    /\ pc' = "archives"
    /\ UNCHANGED <<memory_types, sections, reg_i, mem_reg_origin, mem_reg_length,
                   memory_regions_splitted, memory_map, error>>
    /\ InputsUnchanged /\ DiffUnchanged /\ UNCHANGED warnings

\* line 264: _add_archives_to_sections
AddArchivesToSections ==
    /\ pc = "archives"
    /\ LET r == _add_archives_to_sections(map_sections)
       IN  /\ map_sections' = r
           /\ sections' = WriteBack(sections, r)
    /\ pc' = "mem_type_map"
    /\ UNCHANGED <<memory_types, reg_i, mem_reg_origin, mem_reg_length,
                   memory_regions_splitted, memory_map, error>>
    /\ InputsUnchanged /\ DiffUnchanged /\ UNCHANGED warnings

\* lines 267-271: _get_mem_type_map and return
GetMemTypeMap ==
    /\ pc = "mem_type_map"
    /\ LET r == _get_mem_type_map(memory_types, memory_regions_splitted, map_sections)
       IN  /\ memory_map' = [memory_map EXCEPT !.memory_types = r.map]
           /\ error' = r.err
           /\ warnings' = r.warn
           /\ pc' = IF r.err = "" THEN "done" ELSE "raised"
    /\ UNCHANGED <<memory_types, sections, reg_i, mem_reg_origin, mem_reg_length,
                   memory_regions_splitted, map_sections>>
    /\ InputsUnchanged /\ DiffUnchanged

NextGet ==
    \/ GetMemoryTypes
    \/ SplitRegionsPass
    \/ FilterMapSections
    \/ AddSymbolsToSections
    \/ SplitMapSections
    \/ AddArchivesToSections
    \/ GetMemTypeMap

Spec == InitGet /\ [][NextGet]_vars

\* ------------------------------------------------------------------------
\* get() as one function of its inputs
\* ------------------------------------------------------------------------

\* lines 823-881: the `for mem_reg` loop from region i on, with the locals of the
\* `while True` loop
RECURSIVE SplitFrom(_, _, _, _, _, _)
SplitFrom(types, regions, i, origin, length, splitted) ==
    IF i > Len(regions) \/ Len(splitted) >= MaxSplitted THEN splitted
    ELSE LET r == SplitRegionPass(types, splitted, regions[i], origin, length) IN
         IF ~r.brk THEN SplitFrom(types, regions, i, r.origin, r.length, r.splitted)
         ELSE IF i = Len(regions) THEN r.splitted
         ELSE SplitFrom(types, regions, i + 1, regions[i + 1].origin, regions[i + 1].length,
                        r.splitted)

_split_memory_regions(types, regions) ==
    IF regions = <<>> THEN <<>>
    ELSE SplitFrom(types, regions, 1, regions[1].origin, regions[1].length, <<>>)

\* lines 229-271; err names the exception raised, if any
get(chip_info, regions, osections, e) ==
    LET types == _get_memory_types(chip_info.yaml)
        splitted == _split_memory_regions(types, _filter_memory_regions(regions))
        hdrs == _get_elf_sections_headers(e)
        filtered == _filter_map_sections(osections, hdrs)
        with_symbols == _add_symbols_to_sections(e, filtered)
        with_archives == _add_archives_to_sections(
                             _split_map_sections(with_symbols.osecs, splitted))
        tree == _get_mem_type_map(types, splitted, with_archives)
    IN  IF with_symbols.err # "" THEN [map |-> NoMap, err |-> with_symbols.err]
        ELSE [map |-> [NewMemoryMap("build/app.map") EXCEPT
                          !.target = chip_info.target,
                          !.image_size = _get_image_size(hdrs, filtered),
                          !.memory_types = tree.map],
              err |-> tree.err]

\* ------------------------------------------------------------------------
\* Dict objects: every dict of a memory map lives in a heap. A dict is identified
\* by its heap and its path in the map; FRESH is the heap of the dicts an
\* operation allocates.
\* ------------------------------------------------------------------------

FRESH == 0

\* lines 426-431
level_map ==
    [sections |-> "archives", archives |-> "object_files", object_files |-> "symbols",
     symbols |-> "None"]

\* the key under which a node of the given level keeps its children
Sublevel(level) ==
    CASE level = "memory_map" -> "memory_types"
      [] level = "memory_types" -> "sections"
      [] OTHER -> level_map[level]

HasChildren(info, level) == Sublevel(level) \in DOMAIN info

\* the node info of the given level with all its dicts allocated in heap h
RECURSIVE InHeap(_, _, _)
InHeap(info, level, h) ==
    [f \in DOMAIN info \cup {"heap"} |->
        IF f = "heap" THEN h
        ELSE IF f = Sublevel(level)
             THEN [i \in 1..Len(info[f]) |->
                      [k |-> info[f][i].k, v |-> InHeap(info[f][i].v, f, h)]]
             ELSE info[f]]

\* the heaps of the dicts of a node and its descendants
RECURSIVE Heaps(_, _)
Heaps(info, level) ==
    {info.heap} \cup
    (IF HasChildren(info, level)
     THEN UNION {Heaps(info[Sublevel(level)][i].v, Sublevel(level)) :
                 i \in 1..Len(info[Sublevel(level)])}
     ELSE {})

\* What the holder of node x sees after an operation left the node at the same
\* path as d: a dict of the same heap is the same object.
RECURSIVE Seen(_, _, _)
Seen(x, d, level) ==
    IF d.heap = x.heap THEN d
    ELSE IF ~HasChildren(x, level) \/ ~HasChildren(d, level) THEN x
    ELSE LET sub == Sublevel(level) IN
         [x EXCEPT ![sub] =
            [i \in 1..Len(x[sub]) |->
                IF Has(d[sub], x[sub][i].k)
                THEN [k |-> x[sub][i].k, v |-> Seen(x[sub][i].v, Get(d[sub], x[sub][i].k), sub)]
                ELSE x[sub][i]]]

\* copy.copy: a new dict holding the same values
copy_copy(info, level) == [info EXCEPT !.heap = FRESH]

\* variant of deepcopy that copies the outermost dict only
deepcopy_shallow(info, level) == [info EXCEPT !.heap = FRESH]

\* copy.deepcopy: new dicts all the way down
deepcopy(info, level) == InHeap(info, level, FRESH)

\* ------------------------------------------------------------------------
\* diff(), lines 274-403
\* ------------------------------------------------------------------------

\* variant of ImageSizeDiff that forgets the reference
ImageSizeDiffOfCur(cur, ref) == cur.image_size

\* line 307
ImageSizeDiff(cur, ref) == cur.image_size - ref.image_size

\* variant of AddRefOnly that leaves the diff without the entry
AddRefOnlySkipped(items_diff, name_ref, info_ref, level) == items_diff

\* lines 310-311, 317-318, 324-325, 331-332, 338-339: an entry only in ref
AddRefOnly(items_diff, name_ref, info_ref, level) ==
    Put(items_diff, name_ref, deepcopy(info_ref, level))

\* lines 309-340: the entries of ref merged into the entries of the diff
RECURSIVE Merge(_, _, _)
Merge(items_diff, items_ref, level) ==
    FoldLeft(LAMBDA acc, e :
                 IF ~Has(acc, e.k) THEN AddRefOnly(acc, e.k, e.v, level)
                 ELSE IF level = "symbols" THEN acc
                 ELSE LET sub == Sublevel(level) IN
                      Put(acc, e.k, [Get(acc, e.k) EXCEPT ![sub] = Merge(@, e.v[sub], sub)]),
             items_diff, items_ref)

\* variant of DiffRefOnly with the sign of the reference size lost
DiffRefOnlyUnsigned(info_diff, info_ref, level) ==
    IF level = "memory_types"
    THEN [info_diff EXCEPT !.size = 0, !.used = 0, !.size_diff = info_ref.size,
                           !.used_diff = info_ref.used]
    ELSE [info_diff EXCEPT !.size = 0, !.size_diff = info_ref.size]

\* lines 346-348, 361-362, 372-373, 383-384, 394-395
DiffBoth(info_diff, info_cur, info_ref, level) ==
    IF level = "memory_types"
    THEN [info_diff EXCEPT !.size_diff = info_cur.size - info_ref.size,
                           !.used_diff = info_cur.used - info_ref.used]
    ELSE [info_diff EXCEPT !.size_diff = info_cur.size - info_ref.size]

\* lines 349-351, 363-364, 374-375, 385-386, 396-397
DiffCurOnly(info_diff, info_cur, level) ==
    IF level = "memory_types"
    THEN [info_diff EXCEPT !.size_diff = info_cur.size, !.used_diff = info_cur.used]
    ELSE [info_diff EXCEPT !.size_diff = info_cur.size]

\* lines 352-356, 365-367, 376-378, 387-389, 398-400
DiffRefOnly(info_diff, info_ref, level) ==
    IF level = "memory_types"
    THEN [info_diff EXCEPT !.size = 0, !.used = 0, !.size_diff = 0 - info_ref.size,
                           !.used_diff = 0 - info_ref.used]
    ELSE [info_diff EXCEPT !.size = 0, !.size_diff = 0 - info_ref.size]

\* lines 343-400: items_cur and items_ref are the dicts got from the parents, the
\* empty dict when the parent is missing
RECURSIVE FixSizes(_, _, _, _)
FixSizes(items_diff, items_cur, items_ref, level) ==
    [i \in 1..Len(items_diff) |->
        LET name == items_diff[i].k
            in_cur == Has(items_cur, name)
            in_ref == Has(items_ref, name)
            fixed == IF in_cur /\ in_ref
                     THEN DiffBoth(items_diff[i].v, Get(items_cur, name), Get(items_ref, name), level)
                     ELSE IF in_cur
                     THEN DiffCurOnly(items_diff[i].v, Get(items_cur, name), level)
                     ELSE DiffRefOnly(items_diff[i].v, Get(items_ref, name), level)
            sub == Sublevel(level)
        IN  [k |-> name,
             v |-> IF level = "symbols" THEN fixed
                   ELSE [fixed EXCEPT ![sub] =
                            FixSizes(@, IF in_cur THEN Get(items_cur, name)[sub] ELSE <<>>,
                                        IF in_ref THEN Get(items_ref, name)[sub] ELSE <<>>, sub)]]]

diff(cur, ref) ==
    LET copied == [deepcopy(cur, "memory_map") EXCEPT
                      !.target_diff = ref.target,
                      !.project_path_diff = ref.project_path,
                      !.image_size_diff = ImageSizeDiff(cur, ref)]
        merged == [copied EXCEPT !.memory_types = Merge(@, ref.memory_types, "memory_types")]
    IN  [merged EXCEPT
            !.memory_types = FixSizes(@, cur.memory_types, ref.memory_types, "memory_types")]

\* ------------------------------------------------------------------------
\* unify(), lines 406-468
\* ------------------------------------------------------------------------

\* variant of AddUnified that puts the new entry first
AddUnifiedFirst(unified, abbrev, item) == <<[k |-> abbrev, v |-> item]>> \o unified

\* line 446
AddUnified(unified, abbrev, item) == Put(unified, abbrev, item)

\* variant of Accumulate that keeps the sizes of the last entry only
AccumulateLast(unified_item_info, original_item_info) ==
    [unified_item_info EXCEPT !.size = original_item_info.size,
                              !.size_diff = original_item_info.size_diff]

\* lines 448-449
Accumulate(unified_item_info, original_item_info) ==
    [unified_item_info EXCEPT !.size = @ + original_item_info.size,
                              !.size_diff = @ + original_item_info.size_diff]

\* lines 440-445: the new dict has the key level_map[level], None for symbols
NewUnifiedItem(original_item_info, level) ==
    [abbrev_name |-> original_item_info.abbrev_name,
     size        |-> original_item_info.size,
     size_diff   |-> original_item_info.size_diff,
     heap        |-> FRESH] @@ (level_map[level] :> <<>>)

\* lines 433-455
RECURSIVE unify_items(_, _, _)
unify_items(original, unified, level) ==
    FoldLeft(LAMBDA acc, e :
                 LET original_item_name_abbrev == e.v.abbrev_name
                     sublevel == level_map[level]
                     known == Has(acc, original_item_name_abbrev)
                     unified_item_info ==
                         IF known THEN Accumulate(Get(acc, original_item_name_abbrev), e.v)
                         ELSE NewUnifiedItem(e.v, level)
                     with_children ==
                         IF sublevel = "None" THEN unified_item_info
                         ELSE [unified_item_info EXCEPT
                                  ![sublevel] = unify_items(e.v[sublevel], @, sublevel)]
                 IN  IF known THEN Put(acc, original_item_name_abbrev, with_children)
                     ELSE AddUnified(acc, original_item_name_abbrev, with_children),
             unified, original)

\* lines 459-468: the new value of memory_map['memory_types']
unify(map) ==
    [map EXCEPT !.memory_types =
        [i \in 1..Len(@) |->
            [k |-> @[i].k,
             v |-> [copy_copy(@[i].v, "memory_types") EXCEPT
                       !.sections = unify_items(@, <<>>, "sections")]]]]

\* ------------------------------------------------------------------------
\* remove_unused(), lines 513-526
\* ------------------------------------------------------------------------

\* line 519: the sections that have archives
UsedSections(secs) == SelectSeq(secs, LAMBDA e : e.v.archives # <<>>)

\* lines 517-526 for one memory type: its dict keeps its identity
RemoveUnusedSections(mem_type_info) ==
    [mem_type_info EXCEPT
        !.sections = UsedSections(@),
        !.used = Sum([i \in 1..Len(UsedSections(mem_type_info.sections)) |->
                        UsedSections(mem_type_info.sections)[i].v.size])]

\* lines 513-526: the map after remove_unused(map)
remove_unused(map) ==
    [map EXCEPT !.memory_types =
        LET kept == SelectSeq(@, LAMBDA e : e.v.used # 0)
        IN  [i \in 1..Len(kept) |-> [k |-> kept[i].k, v |-> RemoveUnusedSections(kept[i].v)]]]

\* ------------------------------------------------------------------------
\* diff() and unify() on maps returned by get()
\* ------------------------------------------------------------------------

DATA0_NAME == <<".", "dram0", ".", "data">>

DATA1_NAME == <<".", "dram1", ".", "data">>

\* the input sections the compared builds are made of
Leaves ==
    << [section |-> DATA0_NAME, kind |-> MainKind],
       [section |-> DATA0_NAME,
        kind |-> [name |-> <<".", "text", ".", "init">>, archive |-> LIBFOO,
                  object_file |-> <<"foo.c.obj">>]],
       [section |-> DATA0_NAME,
        kind |-> [name |-> <<".", "text", ".", "main">>, archive |-> LIBFOO,
                  object_file |-> <<"gen", "/", "foo.c.obj">>]],
       [section |-> DATA0_NAME,
        kind |-> [name |-> <<".", "text", ".", "main">>, archive |-> LIBFOO_OTHER,
                  object_file |-> <<"foo.c.obj">>]],
       [section |-> DATA1_NAME, kind |-> MainKind],
       [section |-> TEXT_NAME, kind |-> MainKind] >>

\* a build: leaves picked in increasing order, each with a size
Builds(counts) ==
    UNION { { [leaves |-> p, sizes |-> z] :
              p \in {f \in [1..n -> 1..Len(Leaves)] : \A i, j \in 1..n : i < j => f[i] < f[j]},
              z \in [1..n -> 1..MaxSize] } :
            n \in counts }

SpecsIn(build, name) ==
    LET picked == SelectSeq([i \in 1..Len(build.leaves) |-> i],
                            LAMBDA i : Leaves[build.leaves[i]].section = name)
    IN  [j \in 1..Len(picked) |->
            [kind |-> Leaves[build.leaves[picked[j]]].kind, size |-> build.sizes[picked[j]],
             fill |-> 0]]

SizeIn(build, name) == Sum([j \in 1..Len(SpecsIn(build, name)) |-> SpecsIn(build, name)[j].size])

\* the output sections of a build, laid out from the origins of the regions
SectionsOfBuild(build) ==
    SelectSeq(<< OutputSection(1, TEXT_NAME, 2, SpecsIn(build, TEXT_NAME)),
                 OutputSection(2, DATA0_NAME, 6, SpecsIn(build, DATA0_NAME)),
                 OutputSection(3, DATA1_NAME, 6 + SizeIn(build, DATA0_NAME),
                               SpecsIn(build, DATA1_NAME)) >>,
              LAMBDA sec : sec.input_sections # <<>>)

BuildRegions ==
    << Region(RegionNames[1], 2, 4), Region(RegionNames[2], 6, 4), Region(DEFAULT_REGION, 0, 16) >>

GetOfBuild(chip_info, build) == get(chip_info, BuildRegions, SectionsOfBuild(build), NoElf)

\* the maps compared: what get() returns for builds of up to two leaves for the
\* first chip and of up to one leaf for the second
DiffInputs ==
    {r.map : r \in {x \in {GetOfBuild(ChipSeq[1], b) : b \in Builds(0..2)} \cup
                            {GetOfBuild(ChipSeq[2], b) : b \in Builds(0..1)} : x.err = ""}}

MaxUnify == 2

InitDiff ==
    /\ pc = "maps"
    /\ lines = <<>>
    /\ chip = ChipSeq[1]
    /\ memory_regions = BuildRegions
    /\ sections = <<>>
    /\ elf = NoElf
    /\ elf_arg = NoElf
    /\ elf_file = NoElf
    /\ memory_types = <<>>
    /\ reg_i = 0
    /\ mem_reg_origin = 0
    /\ mem_reg_length = 0
    /\ memory_regions_splitted = <<>>
    /\ map_sections = <<>>
    /\ memory_map = NoMap
    /\ error = ""
    /\ warnings = <<>>
    /\ memory_map_cur \in {InHeap(m, "memory_map", 1) : m \in DiffInputs}
    /\ memory_map_ref \in {InHeap(m, "memory_map", 2) : m \in DiffInputs} \cup {memory_map_cur}
    /\ memory_map_diff = InHeap(NoMap, "memory_map", FRESH)
    /\ unify_count = 0
    /\ dwarf = NoDwarf
    /\ proj_desc = NoProjDesc
    /\ returned = PyNone

GetUnchanged ==
    UNCHANGED <<lines, chip, memory_types, memory_regions, sections, elf, elf_arg,
                elf_file, reg_i, mem_reg_origin, mem_reg_length, memory_regions_splitted, map_sections,
                memory_map, error, warnings, dwarf, proj_desc, returned>>

\* memory_map_diff = diff(memory_map_cur, memory_map_ref)
Diff ==
    /\ pc = "maps"
    /\ LET d == diff(memory_map_cur, memory_map_ref)
       IN  /\ memory_map_diff' = d
           /\ memory_map_cur' = Seen(memory_map_cur, d, "memory_map")
           /\ memory_map_ref' = Seen(memory_map_ref, d, "memory_map")
    /\ pc' = "diffed"
    /\ UNCHANGED unify_count
    /\ GetUnchanged

\* unify(memory_map_diff), which changes the map in place
Unify ==
    /\ pc = "diffed"
    /\ unify_count < MaxUnify
    /\ LET d == unify(memory_map_diff)
       IN  /\ memory_map_diff' = d
           /\ memory_map_cur' = Seen(memory_map_cur, d, "memory_map")
           /\ memory_map_ref' = Seen(memory_map_ref, d, "memory_map")
    /\ unify_count' = unify_count + 1
    /\ UNCHANGED pc
    /\ GetUnchanged

\* remove_unused(memory_map_diff), which changes the map in place
RemoveUnused ==
    /\ pc = "diffed"
    /\ unify_count = 0
    /\ LET d == remove_unused(memory_map_diff)
       IN  /\ memory_map_diff' = d
           /\ memory_map_cur' = Seen(memory_map_cur, d, "memory_map")
           /\ memory_map_ref' = Seen(memory_map_ref, d, "memory_map")
    /\ pc' = "removed"
    /\ UNCHANGED unify_count
    /\ GetUnchanged

NextDiff ==
    \/ Diff
    \/ Unify
    \/ RemoveUnused

SpecDiff == InitDiff /\ [][NextDiff]_vars

\* ------------------------------------------------------------------------
\* mapfile.py: the parser of the linker map file. A line is
\* [indent, words]: whether it starts with white space, and line.split(); a
\* word is a Python str, a sequence of tokens.
\* ------------------------------------------------------------------------

\* the value of a field that holds None, and of a local not yet assigned
None == -1

HexDigits == <<"0", "1", "2", "3", "4", "5", "6", "7", "8", "9",
               "a", "b", "c", "d", "e", "f">>

IsDigit(d, base) == \E i \in 1..base : HexDigits[i] = d

DigitValue(d) == (CHOOSE i \in 1..16 : HexDigits[i] = d) - 1

DigitsValue(digits, base) ==
    FoldLeft(LAMBDA acc, d : acc * base + DigitValue(d), 0, digits)

\* int(word, 0) does not raise ValueError: the word is "0x" and hex digits, or
\* decimal digits without a leading zero
IsNumeral(word) ==
    /\ word # <<>>
    /\ IF Head(word) = "0x"
       THEN Len(word) > 1 /\ \A i \in 2..Len(word) : IsDigit(word[i], 16)
       ELSE /\ \A i \in 1..Len(word) : IsDigit(word[i], 10)
            /\ (Len(word) > 1 => Head(word) # "0")

\* int(word, 0) of a numeral
int(word) ==
    IF Head(word) = "0x" THEN DigitsValue(Tail(word), 16) ELSE DigitsValue(word, 10)

\* str.startswith for a word and a one-token prefix
StartsWith(word, prefix) == word # <<>> /\ Head(word) = prefix

\* line.startswith(prefix) for a line that was not stripped
LineStartsWith(line, prefix) ==
    ~line.indent /\ line.words # <<>> /\ StartsWith(line.words[1], prefix)

\* ' '.join(words)
Join(words) ==
    FoldLeft(LAMBDA acc, w : IF acc = <<>> THEN w ELSE acc \o <<" ">> \o w, <<>>, words)

\* line.split(maxsplit=n)
SplitMax(words, n) ==
    IF Len(words) <= n + 1 THEN words
    ELSE SubSeq(words, 1, n) \o <<Join(SubSeq(words, n + 1, Len(words)))>>

MEMORY_CONFIGURATION == "Memory Configuration"
NAME_HEADER == "Name"
LINKER_SCRIPT == "Linker script and memory map"
CROSS_REFERENCE == "Cross Reference Table"
FILL == "*fill*"
EXPLICIT_BYTES == {"BYTE", "SHORT", "LONG", "QUAD", "SQUAD"}

\* the body of the `for ln, line` loop of _get_memory_regions, lines 40-72;
\* st = [found, header, regions, ln, brk, err]
MemoryRegionLine(st, line) ==
    IF st.brk \/ st.err # "" THEN st
    ELSE LET st1 == [st EXCEPT !.ln = @ + 1]
             splitted == line.words
         IN  IF LineStartsWith(line, LINKER_SCRIPT) THEN [st1 EXCEPT !.brk = TRUE]
             ELSE IF ~st.found
             THEN [st1 EXCEPT !.found = LineStartsWith(line, MEMORY_CONFIGURATION)]
             ELSE IF ~st.header
             THEN [st1 EXCEPT !.header = LineStartsWith(line, NAME_HEADER)]
             ELSE IF splitted = <<>> THEN st1
             ELSE IF Len(splitted) \notin {3, 4}
             THEN [st1 EXCEPT !.err = "MapFileException"]
             ELSE IF ~IsNumeral(splitted[2]) \/ ~IsNumeral(splitted[3])
             THEN [st1 EXCEPT !.err = "ValueError"]
             ELSE [st1 EXCEPT !.regions = Append(@,
                       [name   |-> splitted[1],
                        origin |-> int(splitted[2]),
                        length |-> int(splitted[3]),
                        attrs  |-> IF Len(splitted) = 4 THEN splitted[4] ELSE <<>>])]

\* returns [regions, line_idx, err]; line_idx is the index of the line the loop
\* stopped at, counted from 0
_get_memory_regions(file_lines, line_idx) ==
    LET st == FoldLeft(MemoryRegionLine,
                       [found |-> FALSE, header |-> FALSE, regions |-> <<>>,
                        ln |-> line_idx - 1, brk |-> FALSE, err |-> ""],
                       SubSeq(file_lines, line_idx + 1, Len(file_lines)))
    IN  [regions  |-> st.regions,
         line_idx |-> st.ln,
         err      |-> IF st.err # "" THEN st.err
                      ELSE IF ~st.found \/ ~st.header THEN "MapFileException"
                      ELSE ""]

\* lines 125-133: archive and object file of 'archive(object_file)'
_get_archive_object_file(s) ==
    IF \A i \in 1..Len(s) : s[i] # "("
    THEN [archive |-> <<"(exe)">>, object_file |-> s]
    ELSE LET idx == CHOOSE i \in 1..Len(s) : s[i] = "(" /\ \A j \in 1..(i - 1) : s[j] # "("
         IN  [archive |-> SubSeq(s, 1, idx - 1), object_file |-> SubSeq(s, idx + 1, Len(s) - 1)]

\* the dicts of the parser; present is FALSE for the empty dict {}
NoOutputSection ==
    [present |-> FALSE, name |-> <<>>, address |-> None, size |-> None,
     input_sections |-> <<>>]

NoInputSection ==
    [present |-> FALSE, name |-> <<>>, address |-> None, size |-> None,
     archive |-> <<>>, object_file |-> <<>>, fill |-> 0]

\* the truth value of a size: None and 0 are false
SizeTruthy(size) == size # None /\ size # 0

\* lines 205-214: the fill of an input section of size 0 goes to the last input
\* section of nonzero size; `size` is the local of _get_sections
MoveFill(input_sections, size) ==
    LET sized == {i \in 1..Len(input_sections) : SizeTruthy(input_sections[i].size)} IN
    IF sized = {} THEN input_sections
    ELSE LET i == CHOOSE i \in sized : \A j \in sized : j <= i
         IN  [input_sections EXCEPT ![i].fill = @ + size]

\* lines 136-215; returns [out, err]: the output section with the input section
\* appended, or the exception raised
add_input_section(output_section, input_section, size) ==
    IF output_section.input_sections = <<>>
    THEN [out |-> [output_section EXCEPT !.input_sections = <<input_section>>], err |-> ""]
    ELSE IF input_section.address = None
    THEN [out |-> output_section, err |-> "TypeError"]          \* None < int, line 191
    ELSE LET sized == IF \/ input_section.address < output_section.address
                         \/ input_section.address >= output_section.address + output_section.size
                      THEN [input_section EXCEPT !.size = 0]
                      ELSE input_section
             n == Len(output_section.input_sections)
             isecs == IF output_section.input_sections[n].address = sized.address
                      THEN [output_section.input_sections EXCEPT ![n].size = 0]
                      ELSE output_section.input_sections
             move == sized.size = 0 /\ sized.fill # 0
         IN  IF move /\ size = None /\ \E i \in 1..n : SizeTruthy(isecs[i].size)
             THEN [out |-> output_section, err |-> "NameError"]  \* `size` not assigned yet
             ELSE [out |-> [output_section EXCEPT !.input_sections =
                               IF move
                               THEN Append(MoveFill(isecs, size), [sized EXCEPT !.fill = 0])
                               ELSE Append(isecs, sized)],
                   err |-> ""]

\* `if input_section: add_input_section(output_section, input_section)`, then F;
\* st = [found, in_output_section, in_input_section, output_section, input_section,
\*       size, output_sections, brk, err]
FlushInputSection(st) ==
    IF ~st.input_section.present THEN st
    ELSE LET r == add_input_section(st.output_section, st.input_section, st.size)
         IN  [st EXCEPT !.output_section = r.out, !.err = r.err]

\* lines 236-244: an empty line ends the output section
EndOutputSection(st) ==
    LET st1 == FlushInputSection(st) IN
    IF st1.err # "" THEN st1
    ELSE [st1 EXCEPT !.output_sections = Append(@, st1.output_section),
                     !.in_output_section = FALSE,
                     !.in_input_section = FALSE,
                     !.output_section = NoOutputSection,
                     !.input_section = NoInputSection]

\* lines 246-267: address and size of the output section on its second line
OutputSectionSecondLine(st, splitted) ==
    IF Len(splitted) = 2 /\ IsNumeral(splitted[1]) /\ IsNumeral(splitted[2])
    THEN [st EXCEPT !.output_section.address = int(splitted[1]),
                    !.output_section.size = int(splitted[2]),
                    !.size = int(splitted[2])]
    ELSE [st EXCEPT !.output_section.address = 0, !.output_section.size = 0]

\* lines 269-294: a line that starts a new input section
NewInputSection(st, words) ==
    LET st1 == [FlushInputSection(st) EXCEPT !.in_input_section = TRUE]
        splitted == SplitMax(words, 3)
        new == [NoInputSection EXCEPT !.present = TRUE, !.name = splitted[1]]
    IN  IF st1.err # "" THEN st1
        ELSE IF Len(splitted) = 1 THEN [st1 EXCEPT !.input_section = new]
        ELSE IF Len(splitted) # 4 THEN [st1 EXCEPT !.err = "MapFileException"]
        ELSE IF ~IsNumeral(splitted[2]) \/ ~IsNumeral(splitted[3])
        THEN [st1 EXCEPT !.err = "ValueError"]
        ELSE [st1 EXCEPT !.input_section =
                 [new EXCEPT !.address = int(splitted[2]),
                             !.size = int(splitted[3]),
                             !.archive = _get_archive_object_file(splitted[4]).archive,
                             !.object_file = _get_archive_object_file(splitted[4]).object_file]]

\* lines 297-306: address, size and archive(object_file) on a line of their own
InputSectionSecondLine(st, words) ==
    LET splitted == SplitMax(words, 2) IN
    IF Len(splitted) # 3 THEN [st EXCEPT !.err = "MapFileException"]
    ELSE IF ~IsNumeral(splitted[1]) \/ ~IsNumeral(splitted[2])
    THEN [st EXCEPT !.err = "ValueError"]
    ELSE [st EXCEPT !.input_section.address = int(splitted[1]),
                    !.input_section.size = int(splitted[2]),
                    !.input_section.archive = _get_archive_object_file(splitted[3]).archive,
                    !.input_section.object_file =
                        _get_archive_object_file(splitted[3]).object_file]

\* lines 308-321: a *fill* line
FillLine(st, splitted) ==
    IF Len(splitted) # 3 THEN [st EXCEPT !.err = "MapFileException"]
    ELSE IF ~IsNumeral(splitted[2]) \/ ~IsNumeral(splitted[3])
    THEN [st EXCEPT !.err = "ValueError"]
    ELSE LET address == int(splitted[2])
             size == int(splitted[3])
         IN  [st EXCEPT !.size = size,
                        !.input_section.size = IF st.input_section.address = address
                                               THEN 0 ELSE @,
                        !.input_section.fill = @ + size]

\* lines 323-330: explicit bytes of data in the output section
ExplicitBytesLine(st, splitted) ==
    IF Len(splitted) = 4 /\ Len(splitted[3]) = 1 /\ splitted[3][1] \in EXPLICIT_BYTES
    THEN IF ~IsNumeral(splitted[2]) THEN [st EXCEPT !.err = "ValueError"]
         ELSE [st EXCEPT !.input_section.fill = @ + int(splitted[2])]
    ELSE st

\* lines 233-330: a line inside an output section
InOutputSection(st, words) ==
    IF words = <<>> THEN EndOutputSection(st)
    ELSE IF st.output_section.address = None
    THEN OutputSectionSecondLine(st, words)
    ELSE IF StartsWith(words[1], ".") \/ StartsWith(words[1], "COMMON")
    THEN NewInputSection(st, words)
    ELSE IF ~st.in_input_section THEN st
    ELSE IF st.input_section.address = None THEN InputSectionSecondLine(st, words)
    ELSE IF StartsWith(words[1], FILL) THEN FillLine(st, words)
    ELSE IF \E i \in 1..Len(words) : \E j \in 1..Len(words[i]) : words[i][j] \in EXPLICIT_BYTES
    THEN ExplicitBytesLine(st, words)
    ELSE st

\* lines 332-364: a line that starts a new output section
NewOutputSection(st, splitted) ==
    LET new == [NoOutputSection EXCEPT !.present = TRUE, !.name = splitted[1]]
        st1 == [st EXCEPT !.in_output_section = TRUE]
    IN  IF Len(splitted) = 1 THEN [st1 EXCEPT !.output_section = new]
        ELSE IF Len(splitted) # 3 THEN [st1 EXCEPT !.err = "MapFileException"]
        ELSE IF ~IsNumeral(splitted[2]) \/ ~IsNumeral(splitted[3])
        THEN [st1 EXCEPT !.err = "ValueError"]
        ELSE [st1 EXCEPT !.output_section = [new EXCEPT !.address = int(splitted[2]),
                                                        !.size = int(splitted[3])]]

\* the body of the `for ln, line` loop of _get_sections, lines 223-364
SectionLine(st, line) ==
    IF st.brk \/ st.err # "" THEN st
    ELSE IF LineStartsWith(line, CROSS_REFERENCE) THEN [st EXCEPT !.brk = TRUE]
    ELSE IF ~st.found THEN [st EXCEPT !.found = LineStartsWith(line, LINKER_SCRIPT)]
    ELSE IF st.in_output_section THEN InOutputSection(st, line.words)
    ELSE IF LineStartsWith(line, ".") THEN NewOutputSection(st, line.words)
    ELSE st

\* lines 135-374; returns [output_sections, err]
_get_sections(file_lines, line_idx) ==
    LET st == FoldLeft(SectionLine,
                       [found |-> FALSE, in_output_section |-> FALSE,
                        in_input_section |-> FALSE, output_section |-> NoOutputSection,
                        input_section |-> NoInputSection, size |-> None,
                        output_sections |-> <<>>, brk |-> FALSE, err |-> ""],
                       SubSeq(file_lines, line_idx + 1, Len(file_lines)))
    IN  [output_sections |-> st.output_sections,
         err |-> IF st.err # "" THEN st.err
                 ELSE IF ~st.found THEN "MapFileException"
                 ELSE ""]

\* variant of ValidateInputSection that leaves the fill out of the offset
ValidateInputSectionNoFill(st, input_section) ==
    IF st.err # "" \/ ~SizeTruthy(input_section.size) THEN st
    ELSE IF st.start_addr + st.offset # input_section.address
    THEN [st EXCEPT !.err = "MapFileException"]
    ELSE [st EXCEPT !.offset = @ + input_section.size]

\* the body of `for input_section in section['input_sections']`, lines 385-394;
\* st = [start_addr, offset, err]
ValidateInputSection(st, input_section) ==
    IF st.err # "" \/ ~SizeTruthy(input_section.size) THEN st
    ELSE IF st.start_addr = None THEN [st EXCEPT !.err = "TypeError"]   \* None + int
    ELSE IF st.start_addr + st.offset # input_section.address
    THEN [st EXCEPT !.err = "MapFileException"]
    ELSE [st EXCEPT !.offset = @ + input_section.size + input_section.fill]

\* lines 377-394 for one output section: the exception raised, or ""
ValidateSection(section) ==
    IF section.input_sections = <<>> THEN ""
    ELSE FoldLeft(ValidateInputSection,
                  [start_addr |-> section.input_sections[1].address, offset |-> 0, err |-> ""],
                  section.input_sections).err

\* lines 376-397: the exception raised by validate(), or ""
_validate_sections(secs) ==
    FoldLeft(LAMBDA err, section : IF err # "" THEN err ELSE ValidateSection(section),
             "", secs)

\* memorymap.py lines 200-203: MapFileException reaches the caller of get() as
\* MemMapException, any other exception as it is
RaisedByGet(err) == IF err = "MapFileException" THEN "MemMapException" ELSE err

\* ------------------------------------------------------------------------
\* Map files
\* ------------------------------------------------------------------------

MaxRows == 3

MaxRowSize == 2

Line(indent, words) == [indent |-> indent, words |-> words]

EmptyLine == Line(FALSE, <<>>)

\* the text of a number as the linker prints it
Hex(n) == IF n < 16 THEN <<"0x", HexDigits[n + 1]>>
          ELSE <<"0x", HexDigits[(n \div 16) + 1], HexDigits[(n % 16) + 1]>>

FOO_PATH == LIBFOO \o <<"(", "foo.c.obj", ")">>

RegionLine(origin, length) == Line(FALSE, << <<"iram0_0_seg">>, origin, length, <<"xrw">> >>)

OutputLine(address, size) == Line(FALSE, <<TEXT_NAME, Hex(address), Hex(size)>>)

InputLine(address, size) ==
    Line(TRUE, <<MainKind.name, Hex(address), Hex(size), FOO_PATH>>)

FillRow(address, size) == Line(TRUE, << <<FILL>>, Hex(address), Hex(size) >>)

RowAddrs == {2, 3, 4}

\* the rows of an output section of the map: input sections and fills
Rows ==
    {InputLine(a, s) : a \in RowAddrs, s \in 0..MaxRowSize}
        \cup {FillRow(a, s) : a \in RowAddrs, s \in 1..MaxFill}

RowLists == UNION {[1..n -> Rows] : n \in 1..MaxRows}

\* a map file with one memory region and the given lines of output sections
MapFileLines(region_line, section_lines) ==
    << Line(FALSE, << <<MEMORY_CONFIGURATION>> >>),
       EmptyLine,
       Line(FALSE, << <<NAME_HEADER>>, <<"Origin">>, <<"Length">>, <<"Attributes">> >>),
       region_line,
       Line(FALSE, << <<"*default*">>, Hex(0), Hex(255) >>),
       EmptyLine,
       Line(FALSE, << <<LINKER_SCRIPT>> >>),
       EmptyLine >>
    \o section_lines
    \o << Line(FALSE, << <<CROSS_REFERENCE>> >>) >>

\* the lines of one output section at address 2
OutputSectionLines(size, rows) == <<OutputLine(2, size)>> \o rows \o <<EmptyLine>>

\* output sections that use the other forms of the lines: name and numbers on two
\* lines, explicit bytes, a pattern line, a section without address, an input
\* section followed by several fill and explicit-byte records
OtherSectionLines ==
    { << OutputLine(2, 6), InputLine(2, 2), InputLine(4, 1), FillRow(4, 1), FillRow(5, 2),
         EmptyLine >>,
      << OutputLine(2, 6), InputLine(2, 2), InputLine(4, 0), FillRow(4, 1),
         Line(TRUE, <<Hex(5), Hex(2), <<"LONG">>, Hex(0)>>), EmptyLine >>,
      << Line(FALSE, <<TEXT_NAME>>), Line(TRUE, <<Hex(2), Hex(4)>>),
         Line(TRUE, << <<"*(", ".", "text", ")">> >>),
         Line(TRUE, <<MainKind.name>>), Line(TRUE, <<Hex(2), Hex(2), FOO_PATH>>),
         InputLine(4, 0), FillRow(4, 2), EmptyLine >>,
      << OutputLine(2, 4), InputLine(2, 2), InputLine(4, 0),
         Line(TRUE, <<Hex(4), Hex(2), <<"LONG">>, Hex(0)>>), EmptyLine >>,
      << OutputLine(2, 4), InputLine(2, 4), Line(TRUE, <<MainKind.name>>), EmptyLine >>,
      << OutputLine(2, 4), Line(TRUE, <<MainKind.name>>), EmptyLine >>,
      << OutputLine(2, 4), Line(TRUE, <<MainKind.name, Hex(2)>>), EmptyLine >>,
      << OutputLine(2, 4), Line(TRUE, <<MainKind.name, Hex(2), <<"zz">>, FOO_PATH>>),
         EmptyLine >>,
      << Line(FALSE, << <<".", "xt", ".", "prop">> >>),
         Line(TRUE, << <<"*(", ".", "xt", ".", "prop", ")">> >>), EmptyLine >>,
      << OutputLine(2, 4), Line(TRUE, << <<"COMMON">>, Hex(2), Hex(4), <<"main.o">> >>),
         EmptyLine >> }

\* the region lines that _get_memory_regions does not take: a non-numeric origin,
\* a non-numeric length, a line of two words
BadRegionLines ==
    { RegionLine(<<"zz">>, Hex(4)),
      RegionLine(Hex(2), <<"0x">>),
      Line(FALSE, << <<"iram0_0_seg">>, Hex(2) >>) }

\* the lines of an output section that no empty line ends
UnclosedSectionLines == {<<OutputLine(2, 2), InputLine(2, s)>> : s \in 1..MaxRowSize}

\* the lines without the last one: a map file that ends with its linker-map part
WithoutLast(file_lines) == SubSeq(file_lines, 1, Len(file_lines) - 1)

MapFiles ==
    {MapFileLines(RegionLine(Hex(2), Hex(4)), OutputSectionLines(size, rows)) :
        size \in {2, 4}, rows \in RowLists}
    \cup {MapFileLines(RegionLine(Hex(2), Hex(4)), section_lines) :
             section_lines \in UnclosedSectionLines}
    \cup {WithoutLast(MapFileLines(RegionLine(Hex(2), Hex(4)), section_lines)) :
             section_lines \in UnclosedSectionLines}
    \cup {MapFileLines(RegionLine(Hex(2), Hex(4)), section_lines) :
             section_lines \in OtherSectionLines}
    \cup {MapFileLines(region_line, OutputSectionLines(2, <<InputLine(2, 2)>>)) :
             region_line \in BadRegionLines}
    \cup { <<EmptyLine>> }

\* ------------------------------------------------------------------------
\* get(): loading the map file, lines 198-212
\* ------------------------------------------------------------------------

\* the section whose headers and symbols the ELF files of the project hold
APP_SECTION ==
    OutputSection(1, TEXT_NAME, 5, << [kind |-> MainKind, size |-> 1, fill |-> 0] >>)

\* the Elf instances a caller may pass to get(); None is NoElf
ElfArgs == {NoElf, ElfOf(<<APP_SECTION>>, TRUE)}

\* what get_elf() finds: no ELF file, or the file named by project_description.json
ElfFiles == {NoElf, ElfOf(<<APP_SECTION>>, FALSE)}

\* the map files that get() is called on with every combination of ELF arguments
\* and ELF files
MapFilesWithElf ==
    {MapFileLines(RegionLine(Hex(2), Hex(4)), OutputSectionLines(2, <<InputLine(2, s)>>)) :
        s \in 1..MaxRowSize}

\* the call get(input_fn, map_file=None, elf=elf_arg)
InitParse ==
    /\ pc = "call"
    /\ \/ lines \in MapFiles /\ elf_arg = NoElf /\ elf_file = NoElf
       \/ lines \in MapFilesWithElf /\ elf_arg \in ElfArgs /\ elf_file \in ElfFiles
    /\ elf = elf_arg
    /\ chip = ChipSeq[1]
    /\ memory_regions = <<>>
    /\ sections = <<>>
    /\ memory_types = <<>>
    /\ reg_i = 0
    /\ mem_reg_origin = 0
    /\ mem_reg_length = 0
    /\ memory_regions_splitted = <<>>
    /\ map_sections = <<>>
    /\ memory_map = NoMap
    /\ error = ""
    /\ warnings = <<>>
    /\ memory_map_cur = NoMap
    /\ memory_map_ref = NoMap
    /\ memory_map_diff = NoMap
    /\ unify_count = 0
    /\ dwarf = NoDwarf
    /\ proj_desc = NoProjDesc
    /\ returned = PyNone

ParseUnchanged ==
    UNCHANGED <<lines, chip, memory_types, elf_arg, elf_file, reg_i, mem_reg_origin,
                mem_reg_length, memory_regions_splitted, map_sections, memory_map_cur,
                memory_map_ref, memory_map_diff, unify_count, dwarf, proj_desc, returned>>

\* lines 167-182: the new memory_map and the locals of get()
GetLocals ==
    /\ pc = "call"
    /\ memory_map' = NewMemoryMap("build/app.map")
    /\ elf' = NoElf                      \* line 178: proj_desc = map_fn = elf = target = None
    /\ pc' = "open"
    /\ UNCHANGED <<memory_regions, sections, error, warnings>>
    /\ ParseUnchanged

\* lines 200-203: mapfile.MapFile(map_fn), that is MapFile.__init__ (mapfile.py 18-25)
MapFileInit ==
    /\ pc = "open"
    /\ LET regions == _get_memory_regions(lines, 0)
           secs == _get_sections(lines, regions.line_idx)
           err == IF regions.err # "" THEN regions.err ELSE secs.err
       IN  IF err # ""
           THEN /\ error' = RaisedByGet(err)
                /\ pc' = "raised"
                /\ UNCHANGED <<memory_regions, sections>>
           ELSE /\ memory_regions' = regions.regions
                /\ sections' = secs.output_sections
                /\ pc' = "parsed"
                /\ UNCHANGED error
    /\ UNCHANGED <<elf, memory_map, warnings>>
    /\ ParseUnchanged

\* lines 205-210: map_file.validate(); a MapFileException is logged as a warning
Validate ==
    /\ pc = "parsed"
    /\ LET err == _validate_sections(sections)
       IN  IF err = "MapFileException"
           THEN /\ warnings' = Append(warnings, [kind |-> "validate", section |-> <<>>,
                                                 address |-> 0])
                /\ pc' = "validated"
                /\ UNCHANGED error
           ELSE IF err # ""
           THEN /\ error' = err
                /\ pc' = "raised"
                /\ UNCHANGED warnings
           ELSE /\ pc' = "validated"
                /\ UNCHANGED <<error, warnings>>
    /\ UNCHANGED <<memory_regions, sections, elf, memory_map>>
    /\ ParseUnchanged

\* line 214: elf or get_elf(map_fn, proj_desc)
ElfOrGetElf(e, file) == IF e.present THEN e ELSE file

\* lines 214-216
GetElf ==
    /\ pc = "validated"
    /\ elf' = ElfOrGetElf(elf, elf_file)
    /\ pc' = "loaded"
    /\ UNCHANGED <<memory_regions, sections, memory_map, error, warnings>>
    /\ ParseUnchanged

NextParse ==
    \/ GetLocals
    \/ MapFileInit
    \/ Validate
    \/ GetElf

SpecParse == InitParse /\ [][NextParse]_vars

\* ------------------------------------------------------------------------
\* get() on ELF files whose symbol table is not the image of the map file
\* ------------------------------------------------------------------------

STT_NOTYPE == "NOTYPE"

SymAddrs == 4..8

\* an entry of elf.symbols
Elf_Sym(name, st_value, st_size, type) ==
    [name |-> name, st_value |-> st_value, st_size |-> st_size, type |-> type]

\* the symbols an ELF may hold for main and for init: functions, objects and
\* untyped symbols, of size zero or more, before, inside and after the input sections
MainSymbols ==
    {Elf_Sym(<<"main">>, a, s, t) : a \in SymAddrs, s \in 0..MaxSize, t \in {STT_FUNC, STT_NOTYPE}}

InitSymbols ==
    {Elf_Sym(<<"init">>, a, s, STT_OBJECT) : a \in SymAddrs, s \in 0..MaxSize}

\* symbol tables in the order of the file, which is not the order of the addresses
SymbolTables ==
    UNION { {<<>>},
            {<<m>> : m \in MainSymbols},
            {<<i>> : i \in InitSymbols},
            {<<m, i>> : m \in MainSymbols, i \in InitSymbols},
            {<<i, m>> : m \in MainSymbols, i \in InitSymbols} }

\* the ELF files of a link with these output sections: the section headers of
\* ElfOf and any of the symbol tables
ElfsWithSymbols(secs) ==
    {[ElfOf(secs, TRUE) EXCEPT !.symbols = t] : t \in SymbolTables}

InitKind ==
    [name |-> <<".", "text", ".", "init">>, archive |-> LIBFOO, object_file |-> <<"foo.c.obj">>]

\* one output section at address 5: .text.main alone or followed by .text.init
SymbolSectionLists ==
    { << OutputSection(1, TEXT_NAME, 5, specs) >> :
         specs \in UNION { {f \in [1..n -> [kind : {MainKind, InitKind}, size : 1..MaxSize,
                                            fill : 0..1]] :
                              \A i \in 1..n : f[i].kind = (IF i = 1 THEN MainKind ELSE InitKind)} :
                           n \in IsecCounts } }

\* the region IRAM alone, which ends at 6, or followed by DRAM
SymbolRegionLists ==
    { << Region(RegionNames[1], 2, 4), Region(DEFAULT_REGION, 0, 16) >>,
      << Region(RegionNames[1], 2, 4), Region(RegionNames[2], 6, 4),
         Region(DEFAULT_REGION, 0, 16) >> }

InitSymbolsGet ==
    /\ pc = "get"
    /\ lines = <<>>
    /\ chip = ChipSeq[1]
    /\ memory_regions \in SymbolRegionLists
    /\ sections \in SymbolSectionLists
    /\ elf \in ElfsWithSymbols(sections)
    /\ elf_arg = NoElf
    /\ elf_file = elf
    /\ memory_types = <<>>
    /\ reg_i = 0
    /\ mem_reg_origin = 0
    /\ mem_reg_length = 0
    /\ memory_regions_splitted = <<>>
    /\ map_sections = <<>>
    /\ memory_map = NewMemoryMap("build/app.map")
    /\ error = ""
    /\ warnings = <<>>
    /\ memory_map_cur = NoMap
    /\ memory_map_ref = NoMap
    /\ memory_map_diff = NoMap
    /\ unify_count = 0
    /\ dwarf = NoDwarf
    /\ proj_desc = NoProjDesc
    /\ returned = PyNone

SpecSymbols == InitSymbolsGet /\ [][NextGet]_vars

\* ------------------------------------------------------------------------
\* elf.py: DWARF attributes (Dwarf_CU.get_attr_eval, get_attr_str)
\* ------------------------------------------------------------------------

\* Python values of several types: None, int, str (a sequence of tokens) and
\* bytes (a sequence of numbers below 256, or of tokens for the bytes of a text)
PyInt(n) == [t |-> "int", i |-> n]

PyStr(s) == [t |-> "str", s |-> s]

PyBytes(b) == [t |-> "bytes", b |-> b]

NUL == "\\0"

DW_FORM_addr == "DW_FORM_addr"

DW_FORM_string == "DW_FORM_string"

DW_FORM_strp == "DW_FORM_strp"

DW_FORM_exprloc == "DW_FORM_exprloc"

DW_FORM_line_strp == "DW_FORM_line_strp"

DW_OP_addr == 3

DW_AT_location == "DW_AT_location"

DW_AT_name == "DW_AT_name"

DW_AT_low_pc == "DW_AT_low_pc"

DW_AT_abstract_origin == "DW_AT_abstract_origin"

DW_TAG_compile_unit == "DW_TAG_compile_unit"

DW_TAG_subprogram == "DW_TAG_subprogram"

DW_TAG_variable == "DW_TAG_variable"

\* Elf.get_int, little endian: int.from_bytes(data[offset:offset + size]) of the
\* bytes that are there, and the offset after them (offsets count from 0)
RECURSIVE from_bytes(_)
from_bytes(b) == IF b = <<>> THEN 0 ELSE Head(b) + 256 * from_bytes(Tail(b))

get_int(data, size, offset) ==
    [value  |-> from_bytes(SubSeq(data, offset + 1, Min(offset + size, Len(data)))),
     offset |-> offset + size]

\* Dwarf_CU.get_address of a CU with address_size 4
get_address(data, offset) == get_int(data, 4, offset)

\* Elf.lookup_string: the bytes from index up to the next NUL, or ValueError
\* when data.index() finds none
RECURSIVE lookup_string(_, _)
lookup_string(data, index) ==
    IF index >= Len(data) THEN [value |-> <<>>, err |-> "ValueError"]
    ELSE IF data[index + 1] = NUL THEN [value |-> <<>>, err |-> ""]
    ELSE LET r == lookup_string(data, index + 1)
         IN  [r EXCEPT !.value = <<data[index + 1]>> \o @]

\* The dict of an attribute as get_dwarf_attr builds it (its keys 'attr',
\* 'offset' and 'size' are not read here): form and value, and the keys that
\* get_attr_eval and get_attr_str add to it.
DwarfAttr(form, value) ==
    [form |-> form, value |-> value, keys |-> {"form", "value"},
     eval |-> PyNone, evaluated |-> PyNone, string |-> <<>>]

\* lines 1787-1805: the DWARF expression; stack is a list of values
RECURSIVE EvalExpr(_, _, _)
EvalExpr(value, offset, stack) ==
    IF offset >= Len(value) THEN stack
    ELSE IF value[offset + 1] = DW_OP_addr
         THEN LET res == get_address(value, offset + 1)
              IN  EvalExpr(value, res.offset, Append(stack, PyInt(res.value)))
         ELSE <<PyNone>>

\* the sections of strings of the Elf: shdr is [present, data]
EvalString(shdr, value) ==
    IF ~shdr.present THEN [value |-> PyNone, err |-> ""]
    ELSE LET r == lookup_string(shdr.data, value.i)
         IN  [value |-> PyStr(r.value), err |-> r.err]

\* lines 1768-1813: the value of the attribute, or the exception raised
Evaluate(e, attr) ==
    IF attr.form \in {DW_FORM_strp, DW_FORM_line_strp}
    THEN EvalString(IF attr.form = DW_FORM_strp THEN e.debug_str ELSE e.debug_line_str,
                    attr.value)
    ELSE IF attr.form \in {DW_FORM_string, DW_FORM_exprloc} /\ attr.value.t # "bytes"
    THEN [value |-> PyNone, err |-> "AssertionError"]
    ELSE IF attr.form = DW_FORM_string
    THEN [value |-> PyStr(attr.value.b), err |-> ""]
    ELSE IF attr.form = DW_FORM_exprloc
    THEN LET stack == EvalExpr(attr.value.b, 0, <<>>)
         IN  IF Len(stack) # 1
             THEN [value |-> PyNone, err |-> "Elf_Exception"]
             ELSE [value |-> stack[1], err |-> ""]
    ELSE [value |-> PyNone, err |-> ""]

\* line 1815: attr['evaluated'] = evaluated, r being what Evaluate returned
Evaluated(attr, r) ==
    IF r.err # "" THEN [attr |-> attr, value |-> PyNone, err |-> r.err]
    ELSE [attr  |-> [attr EXCEPT !.keys = @ \cup {"evaluated"}, !.evaluated = r.value],
          value |-> r.value, err |-> ""]

\* Dwarf_CU.get_attr_eval, lines 1764-1816: returns the attribute dict as the
\* call leaves it, the value returned and the exception raised or "".
\* Lines 1765-1766 read the key 'eval'; line 1815 writes the key 'evaluated'.
get_attr_eval(e, attr) ==
    IF "evaluated" \in attr.keys
    THEN IF "eval" \in attr.keys
         THEN [attr |-> attr, value |-> attr.eval, err |-> ""]
         ELSE [attr |-> attr, value |-> PyNone, err |-> "KeyError"]
    ELSE Evaluated(attr, Evaluate(e, attr))

\* lines 1823-1834: the text of a value (a str or a number)
StrOf(value) == IF value.t = "str" THEN value.s ELSE <<"0x", HexDigits[value.i + 1]>>

\* lines 1822-1836, r being what get_attr_eval returned
AttrStr(attr, r) ==
    IF r.err # "" THEN [attr |-> attr, value |-> <<>>, err |-> r.err]
    ELSE [attr  |-> [r.attr EXCEPT !.keys = @ \cup {"string"},
                                   !.string = StrOf(IF r.value = PyNone THEN attr.value
                                                    ELSE r.value)],
          value |-> StrOf(IF r.value = PyNone THEN attr.value ELSE r.value), err |-> ""]

\* Dwarf_CU.get_attr_str, lines 1818-1836
get_attr_str(e, attr) ==
    IF "string" \in attr.keys
    THEN [attr |-> attr, value |-> attr.string, err |-> ""]
    ELSE AttrStr(attr, get_attr_eval(e, attr))

\* ------------------------------------------------------------------------
\* elf.py: Elf.add_cus_to_symbols, lines 2137-2195
\* ------------------------------------------------------------------------

SHN_ABS == "SHN_ABS"

\* the attribute of the DIE at this offset replaced
SetAttr(e, offset, at, attr) ==
    [e EXCEPT !.dies = Put(@, offset, [Get(@, offset) EXCEPT !.attrs = Put(@, at, attr)])]

\* cu.get_attr_str(cu_die['attrs'][DW_AT_name]) returned r: the name attribute of
\* the CU keeps what the call cached
CuNameOf(e, cu, r) == [e |-> SetAttr(e, cu, DW_AT_name, r.attr), value |-> r.value, err |-> r.err]

\* lines 2146-2151, for the DIE d that line 2144 chose
CuNameOfDie(e, d) ==
    IF ~Has(e.dies, d.cu) \/ ~Has(Get(e.dies, d.cu).attrs, DW_AT_name)
    THEN [e |-> e, value |-> <<>>, err |-> "KeyError"]
    ELSE CuNameOf(e, d.cu, get_attr_str(e, Get(Get(e.dies, d.cu).attrs, DW_AT_name)))

\* get_cu_name, lines 2141-2151: [e, value, err]
get_cu_name(e, die) ==
    IF ~Has(die.attrs, DW_AT_abstract_origin) THEN CuNameOfDie(e, die)
    ELSE IF ~Has(e.dies, Get(die.attrs, DW_AT_abstract_origin).value.i)
    THEN [e |-> e, value |-> <<>>, err |-> "KeyError"]
    ELSE CuNameOfDie(e, Get(e.dies, Get(die.attrs, DW_AT_abstract_origin).value.i))

\* lines 2161-2162: addresses to positions in e.symbols; a later symbol at the
\* same address replaces the earlier one
SymsDict(e) ==
    FoldLeft(LAMBDA d, i :
                 IF e.symbols[i].st_size # 0 /\ e.symbols[i].type \in {STT_FUNC, STT_OBJECT}
                    /\ e.symbols[i].st_shndx # SHN_ABS
                 THEN Put(d, e.symbols[i].st_value, i) ELSE d,
             <<>>, [i \in 1..Len(e.symbols) |-> i])

\* lines 2180-2187: the address a variable is located at, r being what
\* get_attr_eval returned for its DW_AT_location
LocationOfDie(e, offset, r) ==
    [e    |-> SetAttr(e, offset, DW_AT_location, r.attr),
     addr |-> IF r.err # "" \/ r.value.t # "int" THEN None ELSE r.value.i,
     err  |-> IF r.err # "" THEN r.err
              ELSE IF r.value.t \notin {"int", "none"} THEN "ValueError" ELSE ""]

AttrsOfDie(e, offset) == Get(e.dies, offset).attrs

\* lines 2165-2187: what the loop does with the DIE: the address of the symbol
\* that gets the CU name, or None for `continue`, and the Elf with the attribute
\* DW_AT_location evaluated
AddrOfDie(st, offset) ==
    IF Get(st.e.dies, offset).tag = DW_TAG_subprogram /\ Has(AttrsOfDie(st.e, offset), DW_AT_low_pc)
    THEN [e |-> st.e, addr |-> Get(AttrsOfDie(st.e, offset), DW_AT_low_pc).value.i, err |-> ""]
    ELSE IF Get(st.e.dies, offset).tag = DW_TAG_variable
            /\ Has(AttrsOfDie(st.e, offset), DW_AT_location)
    THEN LocationOfDie(st.e, offset,
                       get_attr_eval(st.e, Get(AttrsOfDie(st.e, offset), DW_AT_location)))
    ELSE [e |-> st.e, addr |-> None, err |-> ""]

\* lines 2178 and 2193: syms_dict[addr].cu_name = the value r that get_cu_name
\* returned, unless it raised
SetCuName(st, addr, r) ==
    [st EXCEPT !.e = IF r.err # "" THEN r.e
                     ELSE [r.e EXCEPT !.symbols[Get(st.syms, addr)].cu_name = r.value],
               !.err = r.err]

\* lines 2173-2178 and 2188-2193, a being what AddrOfDie returned for the DIE
AddCuAt(st, offset, a) ==
    IF a.err # "" \/ a.addr = None \/ ~Has(st.syms, a.addr)
    THEN [st EXCEPT !.e = a.e, !.err = a.err]
    ELSE SetCuName(st, a.addr, get_cu_name(a.e, Get(a.e.dies, offset)))

\* the body of `for offset, die in dies.items()`, lines 2164-2193;
\* st = [e, syms, err], syms being syms_dict as positions in e.symbols
AddCuOfDie(st, offset) ==
    IF st.err # "" THEN st ELSE AddCuAt(st, offset, AddrOfDie(st, offset))

\* line 2195: the dict returned, addresses to symbols
SymsOf(st) ==
    IF st.err # "" THEN <<>>
    ELSE [i \in 1..Len(st.syms) |-> [k |-> st.syms[i].k, v |-> st.e.symbols[st.syms[i].v]]]

\* what add_cus_to_symbols returns from the state st its loop ended in
CusAdded(st) == [e |-> st.e, syms_dict |-> SymsOf(st), err |-> st.err]

\* returns the Elf as the call leaves it, syms_dict (addresses to symbols) and
\* the exception raised or ""
add_cus_to_symbols(e) ==
    CusAdded(FoldLeft(AddCuOfDie, [e |-> e, syms |-> SymsDict(e), err |-> ""], KeySeq(e.dies)))

\* ------------------------------------------------------------------------
\* memorymap.py: _expand_input_sections, lines 1215-1362
\* ------------------------------------------------------------------------

EXE == <<"(exe)">>

\* s.startswith(prefix) on texts
IsPrefix(prefix, s) == Len(prefix) <= Len(s) /\ SubSeq(s, 1, Len(prefix)) = prefix

\* lines 1258-1267: the components with an archive, with component_path and
\* archive_relpath (Path.relative_to raises ValueError for a file outside
\* build_dir), the longest component_path first
Components(pd) ==
    LET with_file == SelectSeq(pd.build_component_info, LAMBDA comp : comp.file # <<>>)
        outside == \E i \in 1..Len(with_file) : ~IsPrefix(pd.build_dir \o <<"/">>, with_file[i].file)
        comps == [i \in 1..Len(with_file) |->
                     [component_path  |-> with_file[i].dir,
                      archive_relpath |-> SubSeq(with_file[i].file, Len(pd.build_dir) + 2,
                                                 Len(with_file[i].file))]]
    IN  [components |-> IF outside THEN <<>>
                        ELSE SortedBy(LAMBDA c : 0 - Len(c.component_path), comps),
         err |-> IF outside THEN "ValueError" ELSE ""]

\* find_symbol_component, lines 1228-1237: the position of the first component
\* whose path starts the path of the CU, or 0
find_symbol_component(cu_path, components) ==
    LET found == {i \in 1..Len(components) : IsPrefix(components[i].component_path, cu_path)}
    IN  IF found = {} THEN 0 ELSE CHOOSE i \in found : \A j \in found : i <= j

\* lines 1255 and 1270-1282: the symbols with a size, a CU name and an archive,
\* sorted by address; archive_path is the archive of the component found
SymbolsWithArchive(syms_dict, components) ==
    LET with_cu == SelectSeq(syms_dict, LAMBDA kv : kv.v.st_size # 0 /\ kv.v.cu_name # <<>>)
        with_archive == SelectSeq(with_cu, LAMBDA kv :
                                      find_symbol_component(kv.v.cu_name, components) # 0)
    IN  SortedBy(LAMBDA kv : kv.k,
                 [i \in 1..Len(with_archive) |->
                     [k |-> with_archive[i].k,
                      v |-> [name |-> with_archive[i].v.name,
                             st_value |-> with_archive[i].v.st_value,
                             st_size |-> with_archive[i].v.st_size,
                             cu_name |-> with_archive[i].v.cu_name,
                             archive_path |-> components[find_symbol_component(
                                 with_archive[i].v.cu_name, components)].archive_relpath]]])

\* lines 1303-1310 and 1335-1342: the input section of a symbol
IsecOfSymbol(sym) ==
    [name |-> sym.name, address |-> sym.st_value, size |-> sym.st_size,
     archive |-> sym.archive_path, object_file |-> basename(sym.cu_name), fill |-> 0,
     symbols |-> <<>>]

\* lines 1321-1328: the gap before a symbol, kept in '(exe)'
GapBefore(isec, sym) ==
    [name |-> isec.name, address |-> isec.address, size |-> sym.st_value - isec.address,
     archive |-> EXE, object_file |-> isec.object_file, fill |-> 0, symbols |-> <<>>]

\* isec['address'] += n; isec['size'] -= n
Consume(isec, n) == [isec EXCEPT !.address = @ + n, !.size = @ - n]

\* the body of `for addr, sym in symbols.items()`, lines 1293-1357;
\* st = [isec, isecs_new, brk], isec being the dict of the map file as changed so far
ExpandBySymbol(st, kv) ==
    IF st.brk THEN st
    ELSE IF kv.k < st.isec.address THEN st
    ELSE IF kv.k = st.isec.address /\ st.isec.size # 0
    THEN [st EXCEPT !.isecs_new = Append(@, IsecOfSymbol(kv.v)),
                    !.isec = Consume(@, kv.v.st_size)]
    ELSE IF kv.k < st.isec.address + st.isec.size
    THEN LET gap == GapBefore(st.isec, kv.v)
         IN  [st EXCEPT !.isecs_new = @ \o <<gap, IsecOfSymbol(kv.v)>>,
                        !.isec = Consume(Consume(@, gap.size), kv.v.st_size)]
    ELSE IF st.isec.size # 0 \/ st.isecs_new = <<>>
    THEN [st EXCEPT !.isecs_new = Append(@, st.isec), !.brk = TRUE]
    ELSE [st EXCEPT !.isecs_new[Len(st.isecs_new)].fill = st.isec.fill, !.brk = TRUE]

\* the body of `for isec in osec['input_sections']`, lines 1286-1357
ExpandInputSection(symbols, isecs_new, isec) ==
    IF isec.archive # EXE THEN Append(isecs_new, isec)
    ELSE FoldLeft(ExpandBySymbol, [isec |-> isec, isecs_new |-> isecs_new, brk |-> FALSE],
                  symbols).isecs_new

\* lines 1284-1360
ExpandSections(secs, symbols) ==
    [o \in 1..Len(secs) |->
        [secs[o] EXCEPT !.input_sections =
            FoldLeft(LAMBDA isecs_new, isec : ExpandInputSection(symbols, isecs_new, isec),
                     <<>>, secs[o].input_sections)]]

\* lines 1252-1360, r being what add_cus_to_symbols returned and c the components
Expanded(secs, r, c) ==
    IF r.err # "" THEN [sections |-> secs, e |-> r.e, warn |-> <<>>, err |-> r.err]
    ELSE IF c.err # "" THEN [sections |-> secs, e |-> r.e, warn |-> <<>>, err |-> c.err]
    ELSE [sections |-> ExpandSections(secs, SymbolsWithArchive(r.syms_dict, c.components)),
          e |-> r.e, warn |-> <<>>, err |-> ""]

\* returns the sections of the map file and the Elf as the call leaves them, the
\* warning logged and the exception raised
_expand_input_sections(secs, pd, e) ==
    IF ~pd.present
    THEN [sections |-> secs, e |-> e, warn |-> <<"no project description">>, err |-> ""]
    ELSE IF ~e.present
    THEN [sections |-> secs, e |-> e, warn |-> <<"no ELF file">>, err |-> ""]
    ELSE Expanded(secs, add_cus_to_symbols(e), Components(pd))

\* ------------------------------------------------------------------------
\* DWARF: inputs and calls
\* ------------------------------------------------------------------------

\* the section .debug_str: the path of one source file of component foo
DEBUG_STR == <<"/", "p", "/", "foo", "/", "x.c", NUL>>

\* DW_AT_name of a CU: a string of .debug_str, or the bytes of the path of a
\* source file that lies in the project directory but in no component of its own
CuNames ==
    { DwarfAttr(DW_FORM_strp, PyInt(0)),
      DwarfAttr(DW_FORM_string, PyBytes(<<"/", "p", "/", "bar", "/", "y.c">>)) }

DieAddrs == {5, 6}

VarAddrs == {6, 7}

\* DW_AT_location: DW_OP_addr with an address of 4 bytes, an operation that is
\* not implemented (DW_OP_fbreg), or an empty expression
Locations ==
    {PyBytes(<<DW_OP_addr, a, 0, 0, 0>>) : a \in VarAddrs} \cup {PyBytes(<<145>>), PyBytes(<<>>)}

Die(tag, attrs) == [tag |-> tag, cu |-> 0, attrs |-> attrs]

\* the DIEs of one CU at offset 0: the CU, a subprogram with or without
\* DW_AT_low_pc and a variable with DW_AT_location
DieLists ==
    { << [k |-> 0, v |-> Die(DW_TAG_compile_unit, <<[k |-> DW_AT_name, v |-> name]>>)],
         [k |-> 1, v |-> Die(DW_TAG_subprogram, low_pc)],
         [k |-> 2, v |-> Die(DW_TAG_variable,
                             <<[k |-> DW_AT_location, v |-> DwarfAttr(DW_FORM_exprloc, loc)]>>)] >> :
      name \in CuNames,
      low_pc \in {<<>>} \cup {<<[k |-> DW_AT_low_pc, v |-> DwarfAttr(DW_FORM_addr, PyInt(a))]>> :
                              a \in DieAddrs},
      loc \in Locations }

DwarfSym(name, st_value, st_size, type) ==
    [name |-> name, st_value |-> st_value, st_size |-> st_size, type |-> type,
     st_shndx |-> "text", cu_name |-> <<>>]

DwarfSymAddrs == 5..7

\* symbol tables: none, the function main, or main and the object init
DwarfSymbolTables ==
    LET mains == {DwarfSym(<<"main">>, a, s, STT_FUNC) : a \in DwarfSymAddrs, s \in 1..MaxSize}
        inits == {DwarfSym(<<"init">>, a, s, STT_OBJECT) : a \in DwarfSymAddrs, s \in 1..MaxSize}
    IN  {<<>>} \cup {<<m>> : m \in mains} \cup {<<m, i>> : m \in mains, i \in inits}

DwarfElfs ==
    {[present |-> TRUE, symbols |-> t, dies |-> d,
      debug_str |-> [present |-> TRUE, data |-> DEBUG_STR],
      debug_line_str |-> [present |-> FALSE, data |-> <<>>]] :
     t \in DwarfSymbolTables, d \in DieLists}

BUILD_DIR == <<"/", "p", "/", "build">>

\* the components main (the project directory) and foo, and a CONFIG_ONLY
\* component without archive
ProjDesc ==
    [present |-> TRUE, build_dir |-> BUILD_DIR,
     build_component_info |->
        << [dir |-> <<"/", "p">>, file |-> BUILD_DIR \o <<"/", "esp-idf", "/", "main", "/", "libmain.a">>],
           [dir |-> <<"/", "p", "/", "cfg">>, file |-> <<>>],
           [dir |-> <<"/", "p", "/", "foo">>, file |-> BUILD_DIR \o <<"/">> \o LIBFOO] >>]

\* input sections of an object file linked directly
ExeKind == [name |-> <<".", "text", ".", "main">>, archive |-> EXE, object_file |-> <<"main.o">>]

\* one output section at address 5: an '(exe)' input section with or without
\* fill, alone or followed by a second one or by an input section of libfoo.a
ExeSectionLists ==
    { << OutputSection(1, TEXT_NAME, 5, specs) >> :
         specs \in UNION { {f \in [1..n -> [kind : {ExeKind, InitKind}, size : 1..MaxSize,
                                            fill : 0..1]] :
                              /\ f[1].kind = ExeKind
                              /\ \A i \in 2..n : f[i].fill = 0} :
                           n \in IsecCounts } }

InitDwarf ==
    /\ pc = "dwarf"
    /\ lines = <<>>
    /\ chip = ChipSeq[1]
    /\ memory_regions = <<>>
    /\ sections \in ExeSectionLists
    /\ elf = NoElf
    /\ elf_arg = NoElf
    /\ elf_file = NoElf
    /\ memory_types = <<>>
    /\ reg_i = 0
    /\ mem_reg_origin = 0
    /\ mem_reg_length = 0
    /\ memory_regions_splitted = <<>>
    /\ map_sections = <<>>
    /\ memory_map = NoMap
    /\ error = ""
    /\ warnings = <<>>
    /\ memory_map_cur = NoMap
    /\ memory_map_ref = NoMap
    /\ memory_map_diff = NoMap
    /\ unify_count = 0
    /\ dwarf \in DwarfElfs
    /\ proj_desc \in {NoProjDesc, ProjDesc}
    /\ returned = PyNone

DwarfUnchanged ==
    UNCHANGED <<lines, chip, memory_types, memory_regions, elf, elf_arg, elf_file, reg_i,
                mem_reg_origin, mem_reg_length, memory_regions_splitted, map_sections,
                memory_map, memory_map_cur, memory_map_ref, memory_map_diff, unify_count,
                proj_desc>>

\* the state after a call on the Elf that returned r.value or raised r.err
Returned(e, value, err) ==
    /\ dwarf' = e
    /\ returned' = value
    /\ error' = err
    /\ pc' = IF err = "" THEN "dwarf" ELSE "raised"

AttrEvaluated(i, j, r) ==
    Returned(SetAttr(dwarf, dwarf.dies[i].k, dwarf.dies[i].v.attrs[j].k, r.attr), r.value, r.err)

\* a call of cu.get_attr_eval(attr) on an attribute of a cached DIE
GetAttrEval ==
    /\ pc = "dwarf"
    /\ \E i \in 1..Len(dwarf.dies) : \E j \in 1..Len(dwarf.dies[i].v.attrs) :
          AttrEvaluated(i, j, get_attr_eval(dwarf, dwarf.dies[i].v.attrs[j].v))
    /\ UNCHANGED <<sections, warnings>>
    /\ DwarfUnchanged

CusReturned(r) ==
    Returned(r.e, IF r.err = "" THEN [t |-> "dict", d |-> r.syms_dict] ELSE PyNone, r.err)

\* a call of elf.add_cus_to_symbols()
AddCusToSymbols ==
    /\ pc = "dwarf"
    /\ CusReturned(add_cus_to_symbols(dwarf))
    /\ UNCHANGED <<sections, warnings>>
    /\ DwarfUnchanged

SectionsExpanded(r) ==
    /\ sections' = r.sections
    /\ dwarf' = r.e
    /\ warnings' = IF r.warn = <<>> THEN warnings ELSE Append(warnings, r.warn)
    /\ error' = r.err
    /\ pc' = IF r.err = "" THEN "expanded" ELSE "raised"

\* get(), lines 218-220: _expand_input_sections(map_file, proj_desc, elf)
ExpandInputSections ==
    /\ pc = "dwarf"
    /\ SectionsExpanded(_expand_input_sections(sections, proj_desc, dwarf))
    /\ UNCHANGED returned
    /\ DwarfUnchanged

NextDwarf ==
    \/ GetAttrEval
    \/ AddCusToSymbols
    \/ ExpandInputSections

SpecDwarf == InitDwarf /\ [][NextDwarf]_vars

\* ------------------------------------------------------------------------
\* _split_memory_regions on catalogs whose memory types leave gaps
\* ------------------------------------------------------------------------

\* a chip catalog with addresses that belong to no memory type between and
\* below its memory types
GapChip ==
    [target |-> "chipE", yaml |-> << Yaml("IRAM", NoField, 4, 2, 0),
                                     Yaml("DRAM", NoField, 8, 2, 0) >>]

\* the call of get() up to the end of _split_memory_regions, on a map file
\* without output sections
InitSplit ==
    /\ pc = "get"
    /\ lines = <<>>
    /\ chip \in Chips \cup {GapChip}
    /\ memory_regions \in RegionLists
    /\ sections = <<>>
    /\ elf = NoElf
    /\ elf_arg = NoElf
    /\ elf_file = NoElf
    /\ memory_types = <<>>
    /\ reg_i = 0
    /\ mem_reg_origin = 0
    /\ mem_reg_length = 0
    /\ memory_regions_splitted = <<>>
    /\ map_sections = <<>>
    /\ memory_map = NewMemoryMap("build/app.map")
    /\ error = ""
    /\ warnings = <<>>
    /\ memory_map_cur = NoMap
    /\ memory_map_ref = NoMap
    /\ memory_map_diff = NoMap
    /\ unify_count = 0
    /\ dwarf = NoDwarf
    /\ proj_desc = NoProjDesc
    /\ returned = PyNone

NextSplit ==
    \/ GetMemoryTypes
    \/ SplitRegionsPass

SpecSplit == InitSplit /\ [][NextSplit]_vars

\* ------------------------------------------------------------------------
\* memorymap.py: the summaries of archives, object files and symbols
\* ------------------------------------------------------------------------

\* the lists of a list of lists, one after another
Concat(seqs) == FoldLeft(LAMBDA acc, s : acc \o s, <<>>, seqs)

\* the tuple that walk() yields; the names and infos below `depth` are None
WalkTuple(m, s, a, o, y) ==
    [mem_type_name |-> m.k, section_name |-> s.k, archive_name |-> a.k, archive_info |-> a.v,
     object_file_name |-> o.k, object_file_info |-> o.v, symbol_name |-> y.k,
     symbol_info |-> y.v]

NoNode == [k |-> PyNone, v |-> PyNone]

\* lines 497-510: the tuples of an archive
WalkArchive(m, s, a, depth) ==
    IF depth = "archives" THEN <<WalkTuple(m, s, a, NoNode, NoNode)>>
    ELSE Concat([o \in 1..Len(a.v.object_files) |->
            IF depth = "objects" THEN <<WalkTuple(m, s, a, a.v.object_files[o], NoNode)>>
            ELSE [y \in 1..Len(a.v.object_files[o].v.symbols) |->
                     WalkTuple(m, s, a, a.v.object_files[o],
                               a.v.object_files[o].v.symbols[y])]])

\* lines 481-510: the tuples of a section
WalkSection(m, s, depth) ==
    Concat([a \in 1..Len(s.v.archives) |-> WalkArchive(m, s, s.v.archives[a], depth)])

\* walk(memory_map, depth), lines 471-510, for the depths the summaries use
walk(map, depth) ==
    Concat([m \in 1..Len(map.memory_types) |->
        Concat([s \in 1..Len(map.memory_types[m].v.sections) |->
            WalkSection(map.memory_types[m], map.memory_types[m].v.sections[s], depth)])])

\* lines 614-631
_get_summary_memory_types(map) ==
    [m \in 1..Len(map.memory_types) |->
        [k |-> map.memory_types[m].k,
         v |-> [size |-> 0, size_diff |-> 0,
                sections |->
                    [s \in 1..Len(map.memory_types[m].v.sections) |->
                        [k |-> map.memory_types[m].v.sections[s].k,
                         v |-> [size |-> 0, size_diff |-> 0,
                                abbrev_name |->
                                    map.memory_types[m].v.sections[s].v.abbrev_name]]]]]]

\* the entry of the summary with the given name: the one there is, or a new one
\* (lines 709-718, 750-759, 785-794)
SummaryEntry(entries, name, abbrev_name, mem_types) ==
    IF Has(entries, name) THEN Get(entries, name)
    ELSE [abbrev_name |-> abbrev_name, size |-> 0, size_diff |-> 0, memory_types |-> mem_types]

\* lines 720-729, 761-769, 796-805: the size of the node is assigned to the
\* section of the entry and added to the memory type and to the entry
AccountNode(entry, mem_type_name, section_name, info) ==
    [entry EXCEPT
        !.memory_types =
            Put(@, mem_type_name,
                [Get(@, mem_type_name) EXCEPT
                    !.sections = Put(@, section_name,
                                     [Get(@, section_name) EXCEPT
                                         !.size = info.size, !.size_diff = info.size_diff]),
                    !.size = @ + info.size,
                    !.size_diff = @ + info.size_diff]),
        !.size = @ + info.size,
        !.size_diff = @ + info.size_diff]

\* lines 679-684
rem_summary_unchanged(entries, args) ==
    IF ~args.diff \/ args.show_unchanged THEN entries
    ELSE SelectSeq(entries, LAMBDA e : e.v.size_diff # 0)

\* ':'.join(names)
JoinColon(names) ==
    FoldLeft(LAMBDA acc, n : IF acc = <<>> THEN n ELSE acc \o <<":">> \o n, <<>>, names)

\* the body of the loop of get_archives_summary, lines 785-805
ArchiveStep(st, t) ==
    Put(st.entries, t.archive_name,
        AccountNode(SummaryEntry(st.entries, t.archive_name, t.archive_info.abbrev_name,
                                 st.mem_types),
                    t.mem_type_name, t.section_name, t.archive_info))

\* lines 774-807
get_archives_summary(map, args) ==
    rem_summary_unchanged(
        FoldLeft(LAMBDA st, t : [st EXCEPT !.entries = ArchiveStep(st, t)],
                 [entries |-> <<>>, mem_types |-> _get_summary_memory_types(map)],
                 walk(map, "archives")).entries,
        args)

\* lines 747-749: the name of the entry of an object file
ObjectFileNameFull(t, args) ==
    IF args.unify THEN t.object_file_info.abbrev_name
    ELSE JoinColon(<<t.archive_name, t.object_file_name>>)

\* the body of the loop of get_object_files_summary, lines 747-769
ObjectFileStep(st, t, args) ==
    Put(st.entries, ObjectFileNameFull(t, args),
        AccountNode(SummaryEntry(st.entries, ObjectFileNameFull(t, args),
                                 basename(t.object_file_name), st.mem_types),
                    t.mem_type_name, t.section_name, t.object_file_info))

\* lines 735-771
get_object_files_summary(map, args) ==
    rem_summary_unchanged(
        FoldLeft(LAMBDA st, t : [st EXCEPT !.entries = ObjectFileStep(st, t, args)],
                 [entries |-> <<>>, mem_types |-> _get_summary_memory_types(map)],
                 walk(map, "objects")).entries,
        args)

\* lines 706-708: the name of the entry of a symbol
SymbolNameFull(t, args) ==
    IF args.unify THEN t.symbol_info.abbrev_name
    ELSE JoinColon(<<t.archive_name, t.object_file_name, t.symbol_name>>)

\* the body of the loop of get_symbols_summary, lines 701-729; st.found is `found`
SymbolStep(st, t, args) ==
    IF t.archive_info.abbrev_name # args.archive_details THEN st
    ELSE [st EXCEPT
            !.found = TRUE,
            !.entries =
                Put(@, SymbolNameFull(t, args),
                    AccountNode(SummaryEntry(st.entries, SymbolNameFull(t, args),
                                             t.symbol_name, st.mem_types),
                                t.mem_type_name, t.section_name, t.symbol_info))]

\* what get_symbols_summary returns from the state st its loop ended in; log.die
\* exits when the archive was not found
SymbolsFound(st, args) ==
    IF st.found THEN [entries |-> rem_summary_unchanged(st.entries, args), err |-> ""]
    ELSE [entries |-> <<>>, err |-> "SystemExit"]

\* lines 687-732
get_symbols_summary(map, args) ==
    SymbolsFound(FoldLeft(LAMBDA st, t : SymbolStep(st, t, args),
                          [entries |-> <<>>, mem_types |-> _get_summary_memory_types(map),
                           found |-> FALSE],
                          walk(map, "all")),
                 args)

\* ------------------------------------------------------------------------
\* The summaries of the maps that diff() and unify() made
\* ------------------------------------------------------------------------

\* the archive named by --archive-details
ARCHIVE_DETAILS == basename(LIBFOO)

\* the args of the summaries
SummaryArgs ==
    [unify : BOOLEAN, diff : BOOLEAN, show_unchanged : {FALSE},
     archive_details : {ARCHIVE_DETAILS, <<"libmain.a">>}]

\* the reference maps of the summaries: the builds of at most one leaf
SummaryRefs == {r.map : r \in {x \in {GetOfBuild(ChipSeq[1], b) : b \in Builds(0..1)} :
                                 x.err = ""}}

\* a build whose section .dram0.data has object files of the same name from two
\* archives
LIBBAR == <<"esp-idf", "/", "bar", "/", "libbar.a">>

BarKind == [name |-> <<".", "text", ".", "main">>, archive |-> LIBBAR, object_file |-> <<"foo.c.obj">>]

TwoArchiveMaps ==
    {get(ChipSeq[1], BuildRegions,
         <<OutputSection(2, DATA0_NAME, 6,
                         << [kind |-> MainKind, size |-> 1, fill |-> 0],
                            [kind |-> BarKind, size |-> z, fill |-> 0] >>)>>,
         NoElf).map : z \in 1..MaxSize}

InitSummary ==
    /\ pc = "maps"
    /\ lines = <<>>
    /\ chip = ChipSeq[1]
    /\ memory_regions = BuildRegions
    /\ sections = <<>>
    /\ elf = NoElf
    /\ elf_arg = NoElf
    /\ elf_file = NoElf
    /\ memory_types = <<>>
    /\ reg_i = 0
    /\ mem_reg_origin = 0
    /\ mem_reg_length = 0
    /\ memory_regions_splitted = <<>>
    /\ map_sections = <<>>
    /\ memory_map = NoMap
    /\ error = ""
    /\ warnings = <<>>
    /\ memory_map_cur \in {InHeap(m, "memory_map", 1) : m \in DiffInputs \cup TwoArchiveMaps}
    /\ memory_map_ref \in {InHeap(m, "memory_map", 2) : m \in SummaryRefs}
    /\ memory_map_diff = InHeap(NoMap, "memory_map", FRESH)
    /\ unify_count = 0
    /\ dwarf = NoDwarf
    /\ proj_desc = NoProjDesc
    /\ returned = PyNone

\* the state after a summary function returned the entries or exited with err
SummaryReturned(entries, err) ==
    /\ returned' = IF err = "" THEN [t |-> "summary", d |-> entries] ELSE PyNone
    /\ error' = err
    /\ pc' = IF err = "" THEN pc ELSE "raised"
    /\ UNCHANGED <<lines, chip, memory_types, memory_regions, sections, elf, elf_arg,
                   elf_file, reg_i, mem_reg_origin, mem_reg_length, memory_regions_splitted,
                   map_sections, memory_map, warnings, dwarf, proj_desc, memory_map_cur,
                   memory_map_ref, memory_map_diff, unify_count>>

\* get_archives_summary(memory_map_diff, args)
ArchivesSummary ==
    /\ pc = "diffed"
    /\ \E args \in SummaryArgs :
          SummaryReturned(get_archives_summary(memory_map_diff, args), "")

\* get_object_files_summary(memory_map_diff, args)
ObjectFilesSummary ==
    /\ pc = "diffed"
    /\ \E args \in SummaryArgs :
          SummaryReturned(get_object_files_summary(memory_map_diff, args), "")

SymbolsReturned(r) == SummaryReturned(r.entries, r.err)

\* get_symbols_summary(memory_map_diff, args)
SymbolsSummary ==
    /\ pc = "diffed"
    /\ \E args \in SummaryArgs : SymbolsReturned(get_symbols_summary(memory_map_diff, args))

NextSummary ==
    \/ Diff
    \/ Unify
    \/ ArchivesSummary
    \/ ObjectFilesSummary
    \/ SymbolsSummary

SpecSummary == InitSummary /\ [][NextSummary]_vars

\* ------------------------------------------------------------------------
\* Claims about the map returned by get()
\* ------------------------------------------------------------------------

SizesOf(d) == [i \in 1..Len(d) |-> d[i].v.size]

\* the section entries of the tree, of all memory types
TreeSections(map) ==
    FoldLeft(LAMBDA acc, t : acc \o Values(t.v.sections), <<>>, map.memory_types)

TreeSectionSet(map) == {TreeSections(map)[i] : i \in 1..Len(TreeSections(map))}

\* the (split) output sections a section entry of the tree was built from
SourcesOf(S) ==
    {j \in 1..Len(map_sections) :
        map_sections[j].size = S.size /\ map_sections[j].archives = S.archives}

FillOf(map_section) ==
    Sum([i \in 1..Len(map_section.input_sections) |-> map_section.input_sections[i].fill])

\* C1: in the map returned by get(), every memory type's used equals the sum of
\* the sizes of its sections.
C1_UsedIsSumOfSections ==
    pc = "done" =>
        \A i \in 1..Len(memory_map.memory_types) :
            memory_map.memory_types[i].v.used = Sum(SizesOf(memory_map.memory_types[i].v.sections))

\* C2 as stated: every section with archives has the size of the sum of its archives.
C2_SectionSizeIsSumOfArchives ==
    pc = "done" =>
        \A S \in TreeSectionSet(memory_map) :
            S.archives # <<>> => S.size = Sum(SizesOf(S.archives))

\* C2 amended: every section with archives has the size of the sum of its archives
\* plus the fill carried by the input sections it was built from.
C2_SectionSizeIsArchivesPlusFill ==
    pc = "done" =>
        \A S \in TreeSectionSet(memory_map) :
            S.archives # <<>> =>
                /\ SourcesOf(S) # {}
                /\ \A j \in SourcesOf(S) :
                      S.size = Sum(SizesOf(S.archives)) + FillOf(map_sections[j])

\* C2 witness: get() returned a section with two archives that was split off at a
\* region end and whose input sections carry fill.
C2_Witness ==
    /\ pc = "done"
    /\ \E S \in TreeSectionSet(memory_map) :
          /\ Len(S.archives) = 2
          /\ S.size > Sum(SizesOf(S.archives))
          /\ \E j \in SourcesOf(S) : map_sections[j].id = 0

\* the object files of a section's archives, each with its archive and object path
ObjectsOf(archives) ==
    FoldLeft(LAMBDA acc, a : acc \o [i \in 1..Len(a.v.object_files) |->
                                       [archive |-> a.k, object_file |-> a.v.object_files[i].k,
                                        info |-> a.v.object_files[i].v]],
             <<>>, archives)

ObjectSet(archives) == {ObjectsOf(archives)[i] : i \in 1..Len(ObjectsOf(archives))}

\* C3 as stated: every object file has the size of the sum of its symbols.
C3_ObjectSizeIsSumOfSymbols ==
    pc = "done" =>
        \A S \in TreeSectionSet(memory_map) : \A O \in ObjectSet(S.archives) :
            O.info.size = Sum(SizesOf(O.info.symbols))

\* the input sections of map section j that belong to object file O
IsecsOf(j, O) ==
    SelectSeq(map_sections[j].input_sections,
              LAMBDA isec : isec.archive = O.archive /\ isec.object_file = O.object_file)

DistinctNames(isecs) ==
    \A a, b \in 1..Len(isecs) : a # b => isecs[a].name # isecs[b].name

\* C3 amended: without an ELF, every object file whose input sections have
\* pairwise distinct names has the size of the sum of its symbols.
C3_ObjectSizeIsSumOfSymbolsNoElf ==
    (pc = "done" /\ ~elf.present) =>
        \A S \in TreeSectionSet(memory_map) : \A O \in ObjectSet(S.archives) :
            /\ SourcesOf(S) # {}
            /\ \A j \in SourcesOf(S) :
                  DistinctNames(IsecsOf(j, O)) => O.info.size = Sum(SizesOf(O.info.symbols))

\* C3 witness: without an ELF, get() returned an object file built from two input
\* sections with distinct names, each injected as its own symbol.
C3_Witness ==
    /\ pc = "done"
    /\ ~elf.present
    /\ \E S \in TreeSectionSet(memory_map) : \E O \in ObjectSet(S.archives) :
          /\ Len(O.info.symbols) = 2
          /\ \E j \in SourcesOf(S) : DistinctNames(IsecsOf(j, O)) /\ Len(IsecsOf(j, O)) = 2

\* the names of the supplied catalog: an entry's 'name', or its key without one
CatalogNames(yaml) ==
    {IF yaml[i].v.name = NoField THEN yaml[i].k ELSE yaml[i].v.name : i \in 1..Len(yaml)}

\* C10: the memory-type names of the map returned by get() are names of the
\* supplied chip catalog.
C10_TypeNamesInCatalog ==
    pc = "done" => KeySet(memory_map.memory_types) \subseteq CatalogNames(chip.yaml)

\* C10 witness: get() returned a map for a catalog whose entries carry a 'name'
\* other than their key, with a section placed in that memory type.
C10_Witness ==
    /\ pc = "done"
    /\ \E i \in 1..Len(chip.yaml) : chip.yaml[i].v.name \notin {NoField, chip.yaml[i].k}
    /\ \E i \in 1..Len(memory_map.memory_types) : memory_map.memory_types[i].v.sections # <<>>

\* the region pieces assigned to the memory type of the given name, in the
\* order of their assignment
PiecesOf(name) == SelectSeq(memory_regions_splitted, LAMBDA r : r.type.name = name)

\* the distance between the two address ranges of a memory type, 0 for a type
\* with one range
TypeOffset(info) ==
    IF info.secondary_address = 0 THEN 0
    ELSE Abs(info.primary_address - info.secondary_address)

IsAliasPiece(pieces, i) ==
    \E j \in 1..(i - 1) :
        /\ pieces[j].length = pieces[i].length
        /\ Abs(pieces[j].origin - pieces[i].origin) = TypeOffset(pieces[i].type)

\* C11: the size of every memory type is the total length of the region pieces
\* assigned to it that are no aliases; a piece is an alias when a piece assigned
\* before it has its length and lies the type's address offset away.
C11_SizeIsNonAliasedLength ==
    pc = "done" =>
        \A t \in 1..Len(memory_map.memory_types) :
            LET pieces == PiecesOf(memory_map.memory_types[t].k) IN
            memory_map.memory_types[t].v.size =
                Sum([i \in 1..Len(pieces) |->
                        IF IsAliasPiece(pieces, i) THEN 0 ELSE pieces[i].length])

\* C11 witness: get() returned a memory type with two pieces of which the second
\* is an alias of the first, so that its size is the length of one piece.
C11_Witness ==
    /\ pc = "done"
    /\ \E t \in 1..Len(memory_map.memory_types) :
          LET pieces == PiecesOf(memory_map.memory_types[t].k) IN
          /\ Len(pieces) = 2
          /\ IsAliasPiece(pieces, 2)
          /\ pieces[1].length > 0
          /\ memory_map.memory_types[t].v.size = pieces[1].length

InPrimaryRange(info, addr) ==
    info.primary_address <= addr /\ addr < info.primary_address + info.length

InSecondaryRange(info, addr) ==
    /\ info.secondary_address # 0
    /\ info.secondary_address <= addr /\ addr < info.secondary_address + info.length

\* the catalog entries one of whose address ranges holds addr
TypesAt(addr) ==
    {t \in 1..Len(memory_types) :
        InPrimaryRange(memory_types[t].v, addr) \/ InSecondaryRange(memory_types[t].v, addr)}

FirstTypeAt(addr) == memory_types[CHOOSE t \in TypesAt(addr) : \A u \in TypesAt(addr) : t <= u].v

PieceSet == {memory_regions_splitted[i] : i \in 1..Len(memory_regions_splitted)}

TypeSize(name) == Get(memory_map.memory_types, name).size

\* the scenario: IRAM, then DRAM whose secondary address is the primary address of
\* IRAM, and two regions of the length of the types at the two primary addresses
AliasScenario ==
    /\ chip = ChipSeq[4]
    /\ Len(memory_regions) = 3
    /\ {memory_regions[1].origin, memory_regions[2].origin} = {2, 6}
    /\ memory_regions[1].length = 4 /\ memory_regions[2].length = 4

\* C12 as stated: in the scenario both regions are assigned to DRAM and DRAM has
\* the size of one of them; a region whose origin lies in the secondary address
\* range of a type is assigned to that type.
C12_SecondaryRangeAssigned ==
    pc = "done" =>
        /\ AliasScenario =>
              /\ \A p \in PieceSet : p.type.name = "DRAM"
              /\ TypeSize("DRAM") = 4
        /\ \A p \in PieceSet : \A t \in 1..Len(memory_types) :
              InSecondaryRange(memory_types[t].v, p.origin) => p.type = memory_types[t].v

\* C12 amended: a region whose origin lies in an address range of a catalog entry
\* is assigned to the first such entry of the catalog; in the scenario the region
\* at the address of IRAM is assigned to IRAM, the other to DRAM, and both types
\* have the size of one region.
C12_FirstCatalogEntryAssigned ==
    pc = "done" =>
        /\ \A p \in PieceSet : TypesAt(p.origin) # {} => p.type = FirstTypeAt(p.origin)
        /\ \A i \in 1..(Len(memory_regions) - 1) :
              TypesAt(memory_regions[i].origin) # {} =>
                  \E p \in PieceSet : /\ p.name = memory_regions[i].name
                                      /\ p.origin = memory_regions[i].origin
                                      /\ p.type = FirstTypeAt(p.origin)
        /\ AliasScenario =>
              /\ \A p \in PieceSet : p.type.name = (IF p.origin = 2 THEN "IRAM" ELSE "DRAM")
              /\ TypeSize("IRAM") = 4
              /\ TypeSize("DRAM") = 4

\* C12 witness: get() returned the map of the scenario, with one piece per region.
C12_Witness ==
    /\ pc = "done"
    /\ AliasScenario
    /\ Len(memory_regions_splitted) = 2

\* the output section starts inside no piece of the memory regions
InNoRegion(map_section) ==
    \A i \in 1..Len(memory_regions_splitted) :
        ~InRange(map_section.address, memory_regions_splitted[i].origin,
                 memory_regions_splitted[i].length)

\* the pieces that end at or before the start of the output section
RegionsEndingBefore(map_section) ==
    {i \in 1..Len(memory_regions_splitted) :
        memory_regions_splitted[i].origin + memory_regions_splitted[i].length
            <= map_section.address}

\* the last of them in address order
PrecedingRegion(map_section) ==
    memory_regions_splitted[
        CHOOSE i \in RegionsEndingBefore(map_section) :
            \A j \in RegionsEndingBefore(map_section) :
                memory_regions_splitted[j].origin <= memory_regions_splitted[i].origin]

\* the output sections of the claim: in no region, at or after the end of one
OverflowSections ==
    {j \in 1..Len(map_sections) :
        InNoRegion(map_sections[j]) /\ RegionsEndingBefore(map_sections[j]) # {}}

\* the section is in the tree under name + '_overflow' in the given memory type,
\* its size is part of used and the overflow warning was logged
AttributedAsOverflow(map_section, mem_type_alias) ==
    /\ Has(memory_map.memory_types, mem_type_alias)
    /\ Has(Get(memory_map.memory_types, mem_type_alias).sections, map_section.name \o OVERFLOW)
    /\ Get(memory_map.memory_types, mem_type_alias).used >= map_section.size
    /\ \E w \in 1..Len(warnings) :
          /\ warnings[w].kind = "overflow detected"
          /\ warnings[w].section = map_section.name
          /\ warnings[w].address = map_section.address

\* C13: an output section that lies in no memory region and starts at or after the
\* end of a region is attributed to the memory type of the immediately preceding
\* region under the key name + '_overflow', with a warning, and its size is added
\* to that type's used.
C13_OverflowToPrecedingRegion ==
    pc = "done" =>
        \A j \in OverflowSections :
            AttributedAsOverflow(map_sections[j], PrecedingRegion(map_sections[j]).type.name)

\* the same for the sections that have a region starting above them
C13_OverflowBelowLaterRegion ==
    pc = "done" =>
        \A j \in OverflowSections :
            (\E i \in 1..Len(memory_regions_splitted) :
                  memory_regions_splitted[i].origin > map_sections[j].address)
            => AttributedAsOverflow(map_sections[j],
                                    PrecedingRegion(map_sections[j]).type.name)

\* the symbol entries [k, v] of the tree, of all object files
TreeSymbolSet(map) ==
    UNION {UNION {{O.info.symbols[i] : i \in 1..Len(O.info.symbols)} :
                     O \in ObjectSet(S.archives)} :
              S \in TreeSectionSet(map)}

ElfSymbolSet == {elf.symbols[i] : i \in 1..Len(elf.symbols)}

\* the names of the input sections of the parsed map
IsecNameSet ==
    UNION {{sections[j].input_sections[i].name : i \in 1..Len(sections[j].input_sections)} :
              j \in 1..Len(sections)}

PARENS == <<"()">>

\* C14 as stated: a symbol entry keyed by the name of a FUNC symbol with '()'
\* appended has the raw symbol name as abbrev_name; an entry keyed by the name of an
\* OBJECT symbol has that name as abbrev_name.
C14_FuncAbbrevNameIsRaw ==
    (pc = "done" /\ elf.present) =>
        \A e \in TreeSymbolSet(memory_map) : \A sym \in ElfSymbolSet :
            /\ (sym.type = STT_FUNC /\ e.k = sym.name \o PARENS) => e.v.abbrev_name = sym.name
            /\ (sym.type = STT_OBJECT /\ e.k = sym.name) => e.v.abbrev_name = sym.name

\* C14 amended: with an ELF, every symbol entry of the tree is keyed by the name of
\* a FUNC symbol with '()' appended, by the raw name of an OBJECT symbol or by the
\* name of an input section; never by the raw name of a FUNC symbol; and its
\* abbrev_name equals its key, '()' included.
C14_AbbrevNameIsKey ==
    (pc = "done" /\ elf.present) =>
        \A e \in TreeSymbolSet(memory_map) :
            /\ e.v.abbrev_name = e.k
            /\ \/ \E sym \in ElfSymbolSet : sym.type = STT_FUNC /\ e.k = sym.name \o PARENS
               \/ \E sym \in ElfSymbolSet : sym.type = STT_OBJECT /\ e.k = sym.name
               \/ e.k \in IsecNameSet
            /\ \A sym \in ElfSymbolSet : sym.type = STT_FUNC => e.k # sym.name

\* C14 witness: get() returned a tree with the entry of a FUNC symbol of the ELF.
C14_Witness ==
    /\ pc = "done"
    /\ elf.present
    /\ \E e \in TreeSymbolSet(memory_map) : \E sym \in ElfSymbolSet :
          sym.type = STT_FUNC /\ e.k = sym.name \o PARENS /\ e.v.size = sym.st_size

\* what the parser recorded for an input section
ParsedInputSection(isec) ==
    [name |-> isec.name, address |-> isec.address, size |-> isec.size, fill |-> isec.fill,
     archive |-> isec.archive, object_file |-> isec.object_file]

\* what the parser recorded for an output section, without its input sections of
\* size 0
ParsedSection(section) ==
    [name |-> section.name, address |-> section.address, size |-> section.size,
     input_sections |->
         [i \in 1..Len(SelectSeq(section.input_sections, LAMBDA s : s.size # 0)) |->
             ParsedInputSection(SelectSeq(section.input_sections, LAMBDA s : s.size # 0)[i])]]

ParsedSections(secs) == [i \in 1..Len(secs) |-> ParsedSection(secs[i])]

RegionsHolding(section, regions) ==
    {r \in 1..Len(regions) : InRange(section.address, regions[r].origin, regions[r].length)}

\* the end b of the first of them
RegionEnd(section, regions) ==
    LET r == CHOOSE r \in RegionsHolding(section, regions) :
                 \A q \in RegionsHolding(section, regions) : r <= q
    IN  regions[r].origin + regions[r].length

\* the output section starts inside a region and extends past its end
ExtendsPastRegion(section, regions) ==
    /\ RegionsHolding(section, regions) # {}
    /\ section.address + section.size > RegionEnd(section, regions)

\* all input sections of a list of output sections
AllInputSections(secs) == FoldLeft(LAMBDA acc, o : acc \o o.input_sections, <<>>, secs)

\* the pieces of an input section among the input sections of the parts
PiecesOfIsec(isec, parts) ==
    SelectSeq(AllInputSections(parts),
              LAMBDA p : /\ p.address >= isec.address
                         /\ p.address < isec.address + isec.size + isec.fill)

\* the pieces of a symbol among the symbols of the pieces of its input section
PiecesOfSymbol(symbol, pieces) ==
    SelectSeq(FoldLeft(LAMBDA acc, p : acc \o p.symbols, <<>>, pieces),
              LAMBDA s : s.name = symbol.name)

\* b lies strictly inside the addresses from start on, extent bytes long
Straddles(start, extent, b) == start < b /\ b < start + extent

\* the parts conserve the bytes of the output section split at b
BytesConserved(section, parts, b) ==
    /\ \A p \in 1..Len(parts) : parts[p].name = section.name
    /\ Sum([p \in 1..Len(parts) |-> parts[p].size]) = section.size
    /\ \E p \in 1..Len(parts) :
          parts[p].address = section.address /\ parts[p].address + parts[p].size = b
    /\ \A i \in 1..Len(section.input_sections) :
          LET isec == section.input_sections[i]
              pieces == PiecesOfIsec(isec, parts)
          IN  /\ Sum([p \in 1..Len(pieces) |-> pieces[p].size]) = isec.size
              /\ Sum([p \in 1..Len(pieces) |-> pieces[p].fill]) = isec.fill
              /\ Straddles(isec.address, isec.size + isec.fill, b) =>
                    /\ Len(pieces) >= 2
                    /\ pieces[1].address = isec.address
                    /\ pieces[1].address + pieces[1].size + pieces[1].fill = b
                    /\ pieces[2].address = b
              /\ \A k \in 1..Len(isec.symbols) :
                    LET symbol == isec.symbols[k]
                        halves == PiecesOfSymbol(symbol, pieces)
                    IN  /\ Sum([h \in 1..Len(halves) |-> halves[h].size]) = symbol.size
                        /\ Straddles(symbol.address, symbol.size, b) =>
                              /\ Len(halves) >= 2
                              /\ halves[1].address = symbol.address
                              /\ halves[1].size = b - symbol.address
                              /\ halves[2].address = b

\* C20: _split_map_sections conserves bytes: an output section that starts inside a
\* region and extends past its end b is replaced by same-named parts whose sizes sum
\* to its size, the first ending at b; an input section overlapping b is split into
\* pieces whose sizes and fills sum to its size and fill, the first reaching b; a
\* symbol straddling b is split at b into halves whose sizes sum to its size.
C20_SplitConservesBytes ==
    [][(pc = "split_sections" /\ pc' = "archives") =>
           \A j \in 1..Len(map_sections) :
               ExtendsPastRegion(map_sections[j], memory_regions_splitted) =>
                   BytesConserved(map_sections[j], map_sections',
                                  RegionEnd(map_sections[j], memory_regions_splitted))]_vars

\* a symbol was split between the last input section of part p and the first
\* input section of the next part
SymbolSplitAfter(p) ==
    LET first == map_sections[p].input_sections
        next == map_sections[p + 1].input_sections
    IN  /\ first # <<>> /\ next # <<>>
        /\ first[Len(first)].name = next[1].name
        /\ first[Len(first)].symbols # <<>> /\ next[1].symbols # <<>>
        /\ first[Len(first)].symbols[Len(first[Len(first)].symbols)].size > 0
        /\ next[1].symbols[1].size > 0
        /\ next[1].symbols[1].address = map_sections[p + 1].address

\* the fill of an input section was split between part p and the next part
FillSplitAfter(p) ==
    LET first == map_sections[p].input_sections
        next == map_sections[p + 1].input_sections
    IN  /\ first # <<>> /\ next # <<>>
        /\ first[Len(first)].name = next[1].name
        /\ first[Len(first)].fill > 0
        /\ next[1].size = 0 /\ next[1].fill > 0
        /\ next[1].address = map_sections[p + 1].address

\* C20 witness: _split_map_sections returned parts of one output section; at one
\* region end it split an input section and its symbol, at another the fill of an
\* input section.
C20_Witness ==
    /\ pc = "archives"
    /\ \E p \in 1..(Len(map_sections) - 1) : SymbolSplitAfter(p)
    /\ \E p \in 1..(Len(map_sections) - 1) : FillSplitAfter(p)

\* the input sections of the parts that end at or before b
InputSectionsUpTo(parts, b) ==
    AllInputSections(SelectSeq(parts, LAMBDA p : p.address + p.size <= b))

\* the input sections of the parts that start at or after b
InputSectionsFrom(parts, b) ==
    AllInputSections(SelectSeq(parts, LAMBDA p : p.address >= b))

\* the symbols of a list of input sections
AllSymbols(isecs) == FoldLeft(LAMBDA acc, i : acc \o i.symbols, <<>>, isecs)

\* nothing that starts at or after b is in a part that ends at b, and nothing that
\* ends at or before b is in a part that starts at b
SidesKept(parts, b) ==
    LET first == InputSectionsUpTo(parts, b)
        second == InputSectionsFrom(parts, b)
    IN  /\ \A i \in 1..Len(first) : first[i].address < b
        /\ \A i \in 1..Len(second) : second[i].address >= b
        /\ \A k \in 1..Len(AllSymbols(first)) : AllSymbols(first)[k].address < b
        /\ \A k \in 1..Len(AllSymbols(second)) : AllSymbols(second)[k].address >= b

\* C21: when _split_map_sections splits an output section at b, the input sections
\* and symbols that start at or after b go only to the second part and those that
\* end at or before b only to the first: the first part gets no piece, of size
\* zero, of an input section or symbol that starts exactly at b.
C21_NothingAtBoundaryInFirstPart ==
    [][(pc = "split_sections" /\ pc' = "archives") =>
           \A j \in 1..Len(map_sections) :
               ExtendsPastRegion(map_sections[j], memory_regions_splitted) =>
                   SidesKept(map_sections',
                             RegionEnd(map_sections[j], memory_regions_splitted))]_vars

\* the input section has a symbol
HasSymbol(isec) == isec.symbols # <<>>

\* C22: after _add_symbols_to_sections has run with an ELF, every input section of
\* the filtered output sections has at least one symbol, the input sections after
\* the address of the last ELF symbol included.
C22_EveryInputSectionHasSymbol ==
    (pc = "split_sections" /\ elf.present) =>
        \A i \in 1..Len(AllInputSections(map_sections)) :
            HasSymbol(AllInputSections(map_sections)[i])

\* the ELF symbols that _add_symbols_to_sections looks at (lines 1062-1063)
\* which start inside the input section and extend past its end
SymbolsPastEnd(e, isec) ==
    {k \in 1..Len(FilteredSymbols(e)) :
        LET symbol == FilteredSymbols(e)[k]
        IN  /\ isec.address <= symbol.st_value
            /\ symbol.st_value < isec.address + isec.size
            /\ symbol.st_value + symbol.st_size > isec.address + isec.size}

\* the symbol lies inside the input section
SymbolFits(isec, symbol) ==
    /\ isec.address <= symbol.address
    /\ symbol.address + symbol.size <= isec.address + isec.size

\* C23: every symbol that _add_symbols_to_sections attaches to an input section
\* lies inside it, and with a function or object symbol that starts inside an input
\* section and extends past its end get() raises MemMapException and attaches
\* nothing to that input section beyond its end.
C23_AttachedSymbolsFit ==
    [][pc = "symbols" =>
           /\ \A i \in 1..Len(AllInputSections(map_sections')) :
                 \A k \in 1..Len(AllInputSections(map_sections')[i].symbols) :
                     SymbolFits(AllInputSections(map_sections')[i],
                                AllInputSections(map_sections')[i].symbols[k])
           /\ (\E i \in 1..Len(AllInputSections(map_sections)) :
                  SymbolsPastEnd(elf, AllInputSections(map_sections)[i]) # {}) =>
                 (pc' = "raised" /\ error' = "MemMapException")]_vars

\* C23 witness: get() raised MemMapException on an ELF whose function main starts
\* inside the second input section and extends past its end, after an object
\* symbol was attached to the first.
C23_Witness ==
    /\ pc = "raised" /\ error = "MemMapException"
    /\ Len(AllInputSections(map_sections)) = 2
    /\ AllInputSections(map_sections)[1].symbols # <<>>
    /\ AllInputSections(map_sections)[1].symbols[1].name = <<"init">>
    /\ SymbolsPastEnd(elf, AllInputSections(map_sections)[2]) # {}

\* the bytes the input sections of an output section account for
IsecSizes(osec) == Sum([i \in 1..Len(osec.input_sections) |-> osec.input_sections[i].size])

IsecFills(osec) == Sum([i \in 1..Len(osec.input_sections) |-> osec.input_sections[i].fill])

\* _expand_input_sections ran through its loop: it neither returned early with
\* a warning nor raised
Expands == pc = "dwarf" /\ pc' = "expanded" /\ warnings' = warnings

\* C24: DWARF-based expansion never loses bytes: in every output section the
\* sizes of the input sections after _expand_input_sections sum to what they
\* summed to before it, and so do the fills, for every set of symbols with
\* compilation-unit information.
C24_ExpansionKeepsBytes ==
    [][Expands => \A o \in 1..Len(sections) :
                     /\ IsecSizes(sections'[o]) = IsecSizes(sections[o])
                     /\ IsecFills(sections'[o]) = IsecFills(sections[o])]_vars

\* the attributes of the cached DIEs of the Elf
AttrsOf(e) ==
    {e.dies[i].v.attrs[j].v : <<i, j>> \in {p \in (1..Len(e.dies)) \X (1..3) :
                                               p[2] <= Len(e.dies[p[1]].v.attrs)}}

\* C30: the DWARF attribute evaluation cache is transparent: on every attribute
\* that get_attr_eval has evaluated, a later call of get_attr_eval does not
\* raise and returns the value the first call returned.
C30_EvalCacheTransparent ==
    \A attr \in AttrsOf(dwarf) :
        "evaluated" \in attr.keys =>
            /\ get_attr_eval(dwarf, attr).err = ""
            /\ get_attr_eval(dwarf, attr).value = attr.evaluated

\* the size a '*fill*' record or an explicit-byte record of the map file gives
FillRead(line) ==
    IF line.indent /\ Len(line.words) = 3 /\ line.words[1] = <<FILL>>
    THEN int(line.words[3])
    ELSE IF line.indent /\ Len(line.words) = 4 /\ line.words[3] \in {<<b>> : b \in EXPLICIT_BYTES}
    THEN int(line.words[2])
    ELSE 0

FillsRead(file_lines) == Sum([i \in 1..Len(file_lines) |-> FillRead(file_lines[i])])

\* every fill or explicit-byte record of the map file follows the line of an
\* input section
FillsFollowInput(file_lines) ==
    \A i \in 1..Len(file_lines) :
        FillRead(file_lines[i]) > 0 =>
            \E j \in 1..(i - 1) : /\ file_lines[j].indent
                                 /\ Len(file_lines[j].words) = 4
                                 /\ StartsWith(file_lines[j].words[1], ".")

\* the map file was parsed into one output section whose first input section
\* has a size, so that every later input section of size zero has an input
\* section of nonzero size before it
ParsedWithSizedFirst ==
    /\ pc = "parsed"
    /\ Len(sections) = 1
    /\ sections[1].input_sections # <<>>
    /\ SizeTruthy(sections[1].input_sections[1].size)
    /\ FillsFollowInput(lines)

\* C25: when an input section ends with zero size and a nonzero accumulated fill,
\* the whole accumulated fill goes to the most recent input section with nonzero
\* size, so the fills recorded for the output section sum to the sizes of the
\* fill and explicit-byte records read.
C25_FillsRecordedAreFillsRead ==
    ParsedWithSizedFirst => IsecFills(sections[1]) = FillsRead(lines)

\* the address of the input section lies outside [address, address + size) of
\* its output section
OutOfRange(osec, isec) ==
    /\ isec.address # None
    /\ osec.address # None
    /\ \/ isec.address < osec.address
       \/ isec.address >= osec.address + osec.size

\* C26: every input section whose address lies outside its output section's
\* range is recorded with size zero, whatever its position in the output
\* section, the first input section included.
C26_OutOfRangeIsZeroSized ==
    pc = "parsed" =>
        \A o \in 1..Len(sections) : \A i \in 1..Len(sections[o].input_sections) :
            OutOfRange(sections[o], sections[o].input_sections[i])
                => sections[o].input_sections[i].size = 0

\* the lines of the linker-map part that open an output section: column-0 lines
\* starting with '.', after the 'Linker script and memory map' line
OpenedSections(file_lines) ==
    {i \in 1..Len(file_lines) :
        /\ LineStartsWith(file_lines[i], ".")
        /\ \E j \in 1..(i - 1) : LineStartsWith(file_lines[j], LINKER_SCRIPT)}

\* C29: every output section the parser opened is recorded in MapFile.sections,
\* the last one included when the linker-map part ends at the 'Cross Reference
\* Table' line or at the end of the file without an empty line before it.
C29_OpenedSectionsAreRecorded ==
    pc = "parsed" => Len(sections) = Cardinality(OpenedSections(lines))

\* a pass of the `while True` loop of _split_memory_regions that stays in the
\* loop of the same region
SamePassAgain == pc = "split_regions" /\ pc' = "split_regions" /\ reg_i' = reg_i

\* C28: _split_memory_regions terminates: every pass of its `while True` loop
\* either leaves the loop of the region or shortens the length of the region
\* that is left to process, so each region is processed in finitely many passes.
C28_EveryPassMakesProgress ==
    [][SamePassAgain => mem_reg_length' < mem_reg_length]_vars

\* the sizes of the memory types of a summary entry, and of the sections of a
\* memory type of the entry
TypeSizes(entry, field) ==
    Sum([m \in 1..Len(entry.memory_types) |-> entry.memory_types[m].v[field]])

SectionSizes(mem_type, field) ==
    Sum([s \in 1..Len(mem_type.sections) |-> mem_type.sections[s].v[field]])

\* the sizes of the entry add up: over its memory types, and in each memory
\* type over its sections
AddsUp(entry, field) ==
    /\ entry[field] = TypeSizes(entry, field)
    /\ \A m \in 1..Len(entry.memory_types) :
          entry.memory_types[m].v[field] = SectionSizes(entry.memory_types[m].v, field)

\* C27: in every entry of the archives, object-files and symbols summaries, with
\* and without args.unify, size is the sum of the sizes of its memory types and
\* the size of each memory type is the sum of the sizes of its sections; the
\* same holds for size_diff.
C27_SummarySizesAddUp ==
    returned.t = "summary" =>
        \A i \in 1..Len(returned.d) :
            AddsUp(returned.d[i].v, "size") /\ AddsUp(returned.d[i].v, "size_diff")

\* ------------------------------------------------------------------------
\* Claims about diff() and unify()
\* ------------------------------------------------------------------------

\* the paths of the nodes below the given entries
RECURSIVE Paths(_, _, _)
Paths(items, level, prefix) ==
    UNION { {Append(prefix, items[i].k)} \cup
            (IF level = "symbols" THEN {}
             ELSE Paths(items[i].v[Sublevel(level)], Sublevel(level), Append(prefix, items[i].k))) :
            i \in 1..Len(items) }

PathsOf(map) == Paths(map.memory_types, "memory_types", <<>>)

RECURSIVE InfoAt(_, _, _)
InfoAt(items, level, path) ==
    IF Len(path) = 1 THEN Get(items, path[1])
    ELSE InfoAt(Get(items, path[1])[Sublevel(level)], Sublevel(level), Tail(path))

NodeAt(map, path) == InfoAt(map.memory_types, "memory_types", path)

\* size and used of the node at path, 0 for a map without it
SizeAt(map, path) == IF path \in PathsOf(map) THEN NodeAt(map, path).size ELSE 0

UsedAt(map, path) == IF path \in PathsOf(map) THEN NodeAt(map, path).used ELSE 0

SameMaps(a, b) == InHeap(a, "memory_map", FRESH) = InHeap(b, "memory_map", FRESH)

Diffed == pc = "diffed" /\ unify_count = 0

\* C4: diff(A, A) has image_size_diff = 0 and size_diff = 0 at every node, and
\* used_diff = 0 at every memory type.
C4_SelfDiffIsZero ==
    (Diffed /\ SameMaps(memory_map_cur, memory_map_ref)) =>
        /\ memory_map_diff.image_size_diff = 0
        /\ \A p \in PathsOf(memory_map_diff) :
              /\ NodeAt(memory_map_diff, p).size_diff = 0
              /\ Len(p) = 1 => NodeAt(memory_map_diff, p).used_diff = 0

\* C4 witness: a map with a nonzero image size and two symbols was diffed against
\* an equal map that is another object.
C4_Witness ==
    /\ Diffed
    /\ SameMaps(memory_map_cur, memory_map_ref)
    /\ memory_map_ref.heap # memory_map_cur.heap
    /\ memory_map_cur.image_size > 0
    /\ Cardinality({p \in PathsOf(memory_map_diff) : Len(p) = 5}) = 2

\* C5: diff(A, B) and diff(B, A) have opposite image_size_diff, opposite size_diff
\* at every node and opposite used_diff at every memory type; a node that the
\* current map of a diff lacks has size 0 in that diff.
C5_DiffAntiCommutative ==
    Diffed =>
        LET d == memory_map_diff
            r == diff(memory_map_ref, memory_map_cur)
        IN  /\ d.image_size_diff = 0 - r.image_size_diff
            /\ \A p \in PathsOf(d) \cap PathsOf(r) :
                  /\ NodeAt(d, p).size_diff = 0 - NodeAt(r, p).size_diff
                  /\ Len(p) = 1 => NodeAt(d, p).used_diff = 0 - NodeAt(r, p).used_diff
            /\ \A p \in PathsOf(memory_map_cur) \cap PathsOf(memory_map_ref) :
                  p \in PathsOf(d) \cap PathsOf(r)
            /\ \A p \in PathsOf(d) : p \notin PathsOf(memory_map_cur) => NodeAt(d, p).size = 0
            /\ \A p \in PathsOf(r) : p \notin PathsOf(memory_map_ref) => NodeAt(r, p).size = 0

\* C5 witness: the diffed maps differ in their image sizes, share a node of
\* different sizes and each have a node the other lacks.
C5_Witness ==
    /\ Diffed
    /\ memory_map_diff.image_size_diff # 0
    /\ \E p \in PathsOf(memory_map_cur) \cap PathsOf(memory_map_ref) :
          NodeAt(memory_map_diff, p).size_diff # 0
    /\ PathsOf(memory_map_cur) \ PathsOf(memory_map_ref) # {}
    /\ PathsOf(memory_map_ref) \ PathsOf(memory_map_cur) # {}

\* C6: D = diff(A, B) has exactly the nodes of A and of B; every node has
\* size_diff = (size in A, or 0) - (size in B, or 0), every memory type has
\* used_diff computed alike from used, and every node only in B has size 0.
C6_DiffIsUnionWithSizeDiffs ==
    Diffed =>
        LET d == memory_map_diff IN
        /\ PathsOf(d) = PathsOf(memory_map_cur) \cup PathsOf(memory_map_ref)
        /\ \A p \in PathsOf(d) :
              /\ NodeAt(d, p).size_diff = SizeAt(memory_map_cur, p) - SizeAt(memory_map_ref, p)
              /\ Len(p) = 1 =>
                    NodeAt(d, p).used_diff = UsedAt(memory_map_cur, p) - UsedAt(memory_map_ref, p)
              /\ p \notin PathsOf(memory_map_cur) => NodeAt(d, p).size = 0

\* C6 witness: the reference has a memory type that the current map lacks and a
\* node below a node of the current map that the current map lacks, and the
\* current map has a node of its own.
C6_Witness ==
    /\ Diffed
    /\ \E p \in PathsOf(memory_map_ref) \ PathsOf(memory_map_cur) : Len(p) = 1
    /\ \E p \in PathsOf(memory_map_ref) \ PathsOf(memory_map_cur) :
          Len(p) >= 2 /\ SubSeq(p, 1, Len(p) - 1) \in PathsOf(memory_map_cur)
    /\ PathsOf(memory_map_cur) \ PathsOf(memory_map_ref) # {}

\* C7: diff() and a later unify() of its result leave both input maps as they
\* were, and the result holds no dict of an input map.
C7_DiffLeavesInputs ==
    [][/\ memory_map_cur' = memory_map_cur
       /\ memory_map_ref' = memory_map_ref
       /\ Heaps(memory_map_diff', "memory_map") \cap
              (Heaps(memory_map_cur', "memory_map") \cup Heaps(memory_map_ref', "memory_map")) = {}
      ]_vars

\* C7 witness: the result of a diff that took nodes from both inputs and changed
\* sizes in them was unified.
C7_Witness ==
    /\ pc = "diffed"
    /\ unify_count = 1
    /\ PathsOf(memory_map_ref) \ PathsOf(memory_map_cur) # {}
    /\ \E p \in PathsOf(memory_map_cur) : SizeAt(memory_map_ref, p) \notin {0, SizeAt(memory_map_cur, p)}

\* C8: unify() of an already unified map leaves memory_types as they are.
C8_UnifyIdempotent ==
    [][(pc = "diffed" /\ unify_count >= 1 /\ unify_count' = unify_count + 1) =>
          memory_map_diff'.memory_types = memory_map_diff.memory_types]_vars

\* C8 witness: a map was unified twice; its entries were merged by the first
\* unify() and some object file has two symbols.
C8_Witness ==
    /\ pc = "diffed"
    /\ unify_count = 2
    /\ Cardinality(PathsOf(memory_map_diff)) <
           Cardinality(PathsOf(diff(memory_map_cur, memory_map_ref)))
    /\ \E p \in PathsOf(memory_map_diff) :
          Len(p) = 4 /\ Len(NodeAt(memory_map_diff, p).symbols) = 2

\* the children of the given entries, one after another
ChildrenOf(entries, sublevel) ==
    FoldLeft(LAMBDA acc, e : acc \o e.v[sublevel], <<>>, entries)

\* every unified entry has the sums of the original entries of its abbreviated
\* name, and so have the entries below it
RECURSIVE SumsByAbbrev(_, _, _)
SumsByAbbrev(originals, unified, level) ==
    /\ KeySet(unified) = {originals[i].v.abbrev_name : i \in 1..Len(originals)}
    /\ \A j \in 1..Len(unified) :
          LET group == SelectSeq(originals, LAMBDA e : e.v.abbrev_name = unified[j].k) IN
          /\ unified[j].v.size = Sum([i \in 1..Len(group) |-> group[i].v.size])
          /\ unified[j].v.size_diff = Sum([i \in 1..Len(group) |-> group[i].v.size_diff])
          /\ level # "symbols" =>
                SumsByAbbrev(ChildrenOf(group, Sublevel(level)),
                             unified[j].v[Sublevel(level)], Sublevel(level))

\* C9: unify() gives every entry the sums of size and size_diff of the original
\* sibling entries of its abbreviated name, level by level under merged parents,
\* and leaves size, used and their diffs of every memory type as they were.
C9_UnifySums ==
    [][(pc = "diffed" /\ unify_count' = unify_count + 1) =>
          LET o == memory_map_diff.memory_types
              u == memory_map_diff'.memory_types
          IN  /\ KeySeq(u) = KeySeq(o)
              /\ \A i \in 1..Len(o) :
                    /\ u[i].v.size = o[i].v.size
                    /\ u[i].v.used = o[i].v.used
                    /\ u[i].v.size_diff = o[i].v.size_diff
                    /\ u[i].v.used_diff = o[i].v.used_diff
                    /\ SumsByAbbrev(o[i].v.sections, u[i].v.sections, "sections")]_vars

\* C9 witness: unify() merged two sections whose archives, object files and
\* symbols were merged too, with a nonzero size_diff.
C9_Witness ==
    /\ pc = "diffed"
    /\ unify_count = 1
    /\ LET o == diff(memory_map_cur, memory_map_ref) IN
       /\ Cardinality({p \in PathsOf(o) : Len(p) = 2}) >
              Cardinality({p \in PathsOf(memory_map_diff) : Len(p) = 2})
       /\ Cardinality({p \in PathsOf(o) : Len(p) = 5}) >
              Cardinality({p \in PathsOf(memory_map_diff) : Len(p) = 5})
       /\ \E p \in PathsOf(memory_map_diff) :
             Len(p) = 5 /\ NodeAt(memory_map_diff, p).size_diff # 0

\* ------------------------------------------------------------------------
\* Claims about the loading of the map file
\* ------------------------------------------------------------------------

\* the parsed output sections that have input sections
ParsedWithInputs == {j \in 1..Len(sections) : sections[j].input_sections # <<>>}

\* size + fill of an input section; a size of None counts as 0
Extent(input_section) ==
    (IF SizeTruthy(input_section.size) THEN input_section.size ELSE 0) + input_section.fill

\* S.size is the sum of size + fill of the input sections of S, and every input
\* section starts where the previous one ends
Contiguous(S) ==
    /\ S.size = Sum([i \in 1..Len(S.input_sections) |-> Extent(S.input_sections[i])])
    /\ \A i \in 2..Len(S.input_sections) :
          S.input_sections[i].address =
              S.input_sections[i - 1].address + Extent(S.input_sections[i - 1])

\* every input section of nonzero size starts at the address of the first input
\* section plus size + fill of the input sections of nonzero size before it
SizedContiguous(S) ==
    \A i \in 1..Len(S.input_sections) :
        SizeTruthy(S.input_sections[i].size) =>
            S.input_sections[i].address =
                S.input_sections[1].address
                + Sum([j \in 1..(i - 1) |->
                         IF SizeTruthy(S.input_sections[j].size)
                         THEN Extent(S.input_sections[j]) ELSE 0])

\* C15 as stated: every output section produced by the map-file parser that has
\* input sections satisfies the contiguity invariant.
C15_ParsedSectionsContiguous ==
    pc \in {"parsed", "validated"} => \A j \in ParsedWithInputs : Contiguous(sections[j])

\* C15 amended: the parser records the sections as the map file lists them;
\* validate() passes without a warning exactly when, in every output section with
\* input sections, the input sections of nonzero size are contiguous from the
\* address of the first input section on, and otherwise get() logs a warning and
\* goes on with the sections as parsed.
C15_ValidatedSectionsContiguous ==
    pc = "validated" =>
        (warnings = <<>> <=> \A j \in ParsedWithInputs : SizedContiguous(sections[j]))

\* C15 witness: validate() passed an output section with two input sections of
\* nonzero size, the first of them followed by fill, whose own size is not the sum
\* of its input sections.
C15_Witness ==
    /\ pc = "validated"
    /\ warnings = <<>>
    /\ \E j \in ParsedWithInputs :
          /\ Len(sections[j].input_sections) >= 2
          /\ SizeTruthy(sections[j].input_sections[1].size)
          /\ sections[j].input_sections[1].fill > 0
          /\ SizeTruthy(sections[j].input_sections[2].size)
          /\ ~Contiguous(sections[j])

\* C16: every failure of the loading of the map file inside get() reaches the
\* caller as MemMapException; no other exception escapes get().
C16_OnlyMemMapException == error \in {"", "MemMapException"}

\* C17: when the caller passes an Elf instance to get(), that instance is the one
\* get() goes on with; the Elf of the project is loaded only when none was passed.
C17_ElfArgumentUsed ==
    pc = "loaded" => elf = (IF elf_arg.present THEN elf_arg ELSE elf_file)

\* ------------------------------------------------------------------------
\* Claims about remove_unused()
\* ------------------------------------------------------------------------

\* the memory types that are not entirely unused
UsedTypeNames(map) ==
    {map.memory_types[i].k : i \in {j \in 1..Len(map.memory_types) :
        map.memory_types[j].v.used # 0 \/ map.memory_types[j].v.used_diff # 0}}

\* C18: remove_unused removes a memory type only when both its used and its
\* used_diff are zero; a memory type with used = 0 and used_diff # 0 is kept.
C18_RemovesEntirelyUnusedOnly ==
    [][(pc = "diffed" /\ pc' = "removed") =>
           UsedTypeNames(memory_map_diff) \subseteq KeySet(memory_map_diff'.memory_types)]_vars

====
